---- MODULE Spec2Model ----
(***************************************************************************)
(* Model of @marianmeres/simple-router: the SimpleRoute pattern compiler   *)
(* and matcher (src/src/route.ts) and the SimpleRouter dispatch shell      *)
(* (src/unnamed/part_005, router.ts).                                      *)
(*                                                                         *)
(* A JavaScript string is a sequence of one-character strings, so that     *)
(* splitting, trimming, slicing and regular-expression tests are computed  *)
(* on the characters as the code computes them.                            *)
(***************************************************************************)
EXTENDS Integers, Sequences, FiniteSets, TLC

(***************************************************************************)
(* Bounds of the explored inputs.                                          *)
(***************************************************************************)
\* largest number of segments of a generated pattern string
MaxPatSegs == 3
\* largest number of path segments of a generated candidate string
MaxUrlSegs == 4
\* largest number of ordinary routes registered in the router
MaxRoutes == 2

\* segments of the patterns and candidates written with extra separators
MaxSepSegs == 2

\* path segments and query pairs of the candidates with malformed encodings
MaxDecodeSegs == 2

MaxDecodePairs == 2

\* path segments of the candidates of repeated parse calls
MaxPureSegs == 2

\* texts between the "&" of a generated query string
MaxQueryPairs == 3

\* path segments of the candidates matched by constrained captures
MaxConstraintSegs == 2

\* largest number of keys of a config object given to the router's constructor
MaxConfigKeys == 2

(***************************************************************************)
(* String helpers (JavaScript String / Array built-ins used by the code).  *)
(***************************************************************************)
Min(a, b) == IF a < b THEN a ELSE b

\* Array.prototype.slice(from) / String.prototype.slice(from), 1-based here
Drop(s, n) == SubSeq(s, Min(n, Len(s)) + 1, Len(s))

\* Array.prototype.slice(0, n) / String.prototype.slice(0, n)
Take(s, n) == SubSeq(s, 1, Min(n, Len(s)))

\* String.prototype.startsWith
StartsWith(s, p) == Len(s) >= Len(p) /\ SubSeq(s, 1, Len(p)) = p

\* String.prototype.endsWith
EndsWith(s, p) == Len(s) >= Len(p) /\ SubSeq(s, Len(s) - Len(p) + 1, Len(s)) = p

\* String.prototype.indexOf(c) for a one-character needle; 0 when absent
\* (the code's -1), otherwise the 1-based position
RECURSIVE IndexOfFrom(_, _, _)
IndexOfFrom(s, c, i) ==
    IF i > Len(s) THEN 0
    ELSE IF s[i] = c THEN i
    ELSE IndexOfFrom(s, c, i + 1)

IndexOf(s, c) == IndexOfFrom(s, c, 1)

\* String.prototype.split(c) for a one-character separator: always at least
\* one piece, empty pieces kept
RECURSIVE Split(_, _)
Split(s, c) ==
    LET i == IndexOf(s, c)
    IN IF i = 0 THEN << s >>
       ELSE << SubSeq(s, 1, i - 1) >> \o Split(SubSeq(s, i + 1, Len(s)), c)

\* Array.prototype.join(c)
RECURSIVE Join(_, _)
Join(parts, c) ==
    IF Len(parts) = 0 THEN << >>
    ELSE IF Len(parts) = 1 THEN parts[1]
    ELSE parts[1] \o << c >> \o Join(Tail(parts), c)

\* Array.prototype.filter(Boolean) on an array of strings: drops ""
FilterBoolean(parts) == SelectSeq(parts, LAMBDA p : Len(p) > 0)

\* String.prototype.trim (the only white space of the alphabet is " ")
RECURSIVE TrimLeft(_)
TrimLeft(s) == IF Len(s) > 0 /\ s[1] = " " THEN TrimLeft(Tail(s)) ELSE s

RECURSIVE TrimRight(_)
TrimRight(s) ==
    IF Len(s) > 0 /\ s[Len(s)] = " " THEN TrimRight(SubSeq(s, 1, Len(s) - 1)) ELSE s

Trim(s) == TrimRight(TrimLeft(s))

(***************************************************************************)
(* SimpleRoute statics.                                                    *)
(***************************************************************************)
SPLITTER == "/"

WILDCARD == "*"

\* the characters matched by \w
WordChars ==
    {"a", "b", "c", "d", "e", "f", "g", "h", "i", "j", "k", "l", "m", "n", "o", "p",
     "q", "r", "s", "t", "u", "v", "w", "x", "y", "z", "A", "B", "C", "D", "E", "F",
     "G", "H", "I", "J", "K", "L", "M", "N", "O", "P", "Q", "R", "S", "T", "U", "V",
     "W", "X", "Y", "Z", "0", "1", "2", "3", "4", "5", "6", "7", "8", "9", "_"}

\* the characters escapeRegExp puts a backslash in front of
RegExpSpecials ==
    {".", "*", "+", "-", "?", "^", "$", "{", "}", "(", ")", "|", "[", "]", "\\"}

\* SimpleRoute.#escapeRegExp
RECURSIVE escapeRegExp(_)
escapeRegExp(str) ==
    IF Len(str) = 0 THEN << >>
    ELSE (IF str[1] \in RegExpSpecials THEN << "\\", str[1] >> ELSE << str[1] >>)
         \o escapeRegExp(Tail(str))

(***************************************************************************)
(* Regular expressions.  A RegExp is its source text; the matcher covers   *)
(* the syntax the code builds and the explored constraints use: literal    *)
(* characters, backslash escapes, ".", the quantifiers "*" and "+", the    *)
(* anchors "^" and "$" and top-level alternation "|".                      *)
(***************************************************************************)
\* length of the atom starting at position i of the source
AtomLen(re, i) == IF re[i] = "\\" /\ i < Len(re) THEN 2 ELSE 1

\* the atom at position i accepts the character at position j of s
AtomOk(re, i, s, j) ==
    /\ j <= Len(s)
    /\ IF re[i] = "\\" /\ i < Len(re) THEN s[j] = re[i + 1]
       ELSE IF re[i] = "." THEN TRUE
       ELSE s[j] = re[i]

\* the source from position i on matches s starting at position j
RECURSIVE MatchHere(_, _, _, _)
MatchHere(re, i, s, j) ==
    IF i > Len(re) THEN TRUE
    ELSE IF re[i] = "^" THEN j = 1 /\ MatchHere(re, i + 1, s, j)
    ELSE IF re[i] = "$" THEN j = Len(s) + 1 /\ MatchHere(re, i + 1, s, j)
    ELSE LET n == AtomLen(re, i)
             q == IF i + n <= Len(re) THEN re[i + n] ELSE ""
         IN IF q = "*"
            THEN \/ MatchHere(re, i + n + 1, s, j)
                 \/ (AtomOk(re, i, s, j) /\ MatchHere(re, i, s, j + 1))
            ELSE IF q = "+"
            THEN /\ AtomOk(re, i, s, j)
                 /\ \/ MatchHere(re, i + n + 1, s, j + 1)
                    \/ MatchHere(re, i, s, j + 1)
            ELSE AtomOk(re, i, s, j) /\ MatchHere(re, i + n, s, j + 1)

\* the alternatives of a source: split at every "|" that is not escaped
RECURSIVE Alternatives(_, _, _)
Alternatives(re, i, acc) ==
    IF i > Len(re) THEN << acc >>
    ELSE IF re[i] = "\\" /\ i < Len(re)
         THEN Alternatives(re, i + 2, acc \o << re[i], re[i + 1] >>)
    ELSE IF re[i] = "|" THEN << acc >> \o Alternatives(re, i + 1, << >>)
    ELSE Alternatives(re, i + 1, Append(acc, re[i]))

\* RegExp.prototype.test: some alternative matches at some position of s
RegExpTest(re, s) ==
    LET alts == Alternatives(re, 1, << >>)
    IN \E a \in 1..Len(alts) : \E j \in 1..(Len(s) + 1) : MatchHere(alts[a], 1, s, j)

\* new RegExp(source) throws a SyntaxError: unbalanced parentheses or a
\* quantifier with nothing to repeat
RECURSIVE ParenDepthOk(_, _, _)
ParenDepthOk(re, i, depth) ==
    IF i > Len(re) THEN depth = 0
    ELSE IF re[i] = "\\" THEN i < Len(re) /\ ParenDepthOk(re, i + 2, depth)
    ELSE IF re[i] = "(" THEN ParenDepthOk(re, i + 1, depth + 1)
    ELSE IF re[i] = ")" THEN depth > 0 /\ ParenDepthOk(re, i + 1, depth - 1)
    ELSE ParenDepthOk(re, i + 1, depth)

RegExpValid(re) ==
    /\ ParenDepthOk(re, 1, 0)
    /\ \A i \in 1..Len(re) :
          re[i] \in {"*", "+"} =>
             /\ i > 1
             /\ \/ re[i - 1] \notin {"^", "|", "(", "*", "+"}
                \/ (i > 2 /\ re[i - 2] = "\\")

(***************************************************************************)
(* decodeURIComponent.  Bytes below 0x80 decode to their ASCII character;  *)
(* a "%" that is not followed by two hexadecimal digits, and a byte from   *)
(* 0x80 on that no explored string completes to a UTF-8 sequence, raise a  *)
(* URIError.                                                               *)
(***************************************************************************)
HexDigits ==
    << "0", "1", "2", "3", "4", "5", "6", "7", "8", "9",
       "a", "b", "c", "d", "e", "f", "A", "B", "C", "D", "E", "F" >>

HexVal(c) ==
    LET i == CHOOSE k \in 1..Len(HexDigits) : HexDigits[k] = c
    IN IF i <= 16 THEN i - 1 ELSE i - 7

IsHex(c) == \E k \in 1..Len(HexDigits) : HexDigits[k] = c

\* the characters of code 32 to 126, in order (codes 34 and 96 are written dquote and bquote)
AsciiPrintable ==
    << " ", "!", "dquote", "#", "$", "%", "&", "'", "(", ")", "*", "+", ",", "-", ".", "/",
       "0", "1", "2", "3", "4", "5", "6", "7", "8", "9", ":", ";", "<", "=", ">", "?",
       "@", "A", "B", "C", "D", "E", "F", "G", "H", "I", "J", "K", "L", "M", "N", "O",
       "P", "Q", "R", "S", "T", "U", "V", "W", "X", "Y", "Z", "[", "\\", "]", "^", "_",
       "bquote", "a", "b", "c", "d", "e", "f", "g", "h", "i", "j", "k", "l", "m", "n", "o",
       "p", "q", "r", "s", "t", "u", "v", "w", "x", "y", "z", "{", "|", "}", "~" >>

\* the character of an ASCII code; control characters are named by their code
CharOfCode(b) ==
    IF b >= 32 /\ b <= 126 THEN AsciiPrintable[b - 31] ELSE << "ctl", b >>

\* decodeURIComponent: [ok |-> FALSE] stands for the thrown URIError
RECURSIVE decodeURIComponent(_)
decodeURIComponent(s) ==
    IF Len(s) = 0 THEN [ok |-> TRUE, val |-> << >>]
    ELSE IF s[1] # "%"
         THEN LET rest == decodeURIComponent(Tail(s))
              IN IF rest.ok THEN [ok |-> TRUE, val |-> << s[1] >> \o rest.val]
                 ELSE rest
    ELSE IF Len(s) < 3 \/ ~IsHex(s[2]) \/ ~IsHex(s[3]) THEN [ok |-> FALSE, val |-> << >>]
    ELSE LET b == 16 * HexVal(s[2]) + HexVal(s[3])
             rest == decodeURIComponent(SubSeq(s, 4, Len(s)))
         IN IF b >= 128 THEN [ok |-> FALSE, val |-> << >>]
            ELSE IF rest.ok THEN [ok |-> TRUE, val |-> << CharOfCode(b) >> \o rest.val]
            ELSE rest

(***************************************************************************)
(* RouteParams: a JavaScript object with string keys, as a function.       *)
(***************************************************************************)
EmptyParams == << >>

\* memo[k] = v
Put(m, k, v) == (k :> v) @@ m

(***************************************************************************)
(* SimpleRoute.#sanitizeAndSplit                                           *)
(***************************************************************************)
\* .replace(new RegExp("^(/)+"), ""): drops the leading run of separators
RECURSIVE StripLeadingSplitters(_)
StripLeadingSplitters(s) ==
    IF Len(s) > 0 /\ s[1] = SPLITTER THEN StripLeadingSplitters(Tail(s)) ELSE s

\* .replace(new RegExp("(/)+$"), ""): drops the trailing run of separators
RECURSIVE StripTrailingSplitters(_)
StripTrailingSplitters(s) ==
    IF Len(s) > 0 /\ s[Len(s)] = SPLITTER
    THEN StripTrailingSplitters(SubSeq(s, 1, Len(s) - 1))
    ELSE s

\* a faulty sanitizeAndSplit: empty segments are kept
sanitizeAndSplitKeepsEmpty(str) ==
    Split(StripTrailingSplitters(StripLeadingSplitters(Trim(str))), SPLITTER)

sanitizeAndSplit(str) ==
    FilterBoolean(Split(StripTrailingSplitters(StripLeadingSplitters(Trim(str))), SPLITTER))

(***************************************************************************)
(* SimpleRoute.#parse: the pattern compiler.  A RouteConfig is a record    *)
(* [segment, name, test, isOptional, isSpread]; name << >> is the code's   *)
(* null (a name is never the empty string), test is the RegExp source.     *)
(***************************************************************************)
NoName == << >>

NoError == "none"

\* a faulty BracketInterior: the brackets are not required
BracketInteriorAnySegment(segment) ==
    IF /\ Len(segment) >= 3
       /\ segment[1] = "["
       /\ segment[Len(segment)] = "]"
       /\ segment[2] \in WordChars
    THEN SubSeq(segment, 2, Len(segment) - 1)
    ELSE IF Len(segment) >= 1 /\ segment[1] \in WordChars THEN segment
    ELSE << >>

\* segment.match(/^\[(\w.*)]$/): the text between the brackets, or << >> when
\* the segment has not that shape
BracketInterior(segment) ==
    IF /\ Len(segment) >= 3
       /\ segment[1] = "["
       /\ segment[Len(segment)] = "]"
       /\ segment[2] \in WordChars
    THEN SubSeq(segment, 2, Len(segment) - 1)
    ELSE << >>

\* inner.match(/^(\w.*)\((.+)\)$/): the position of the "(" that ends the
\* name (the last one that leaves a non-empty constraint), or 0
ConstraintParen(inner) ==
    LET cands == { j \in 2..(Len(inner) - 2) : inner[j] = "(" }
    IN IF Len(inner) >= 4 /\ inner[Len(inner)] = ")" /\ cands # {}
       THEN CHOOSE j \in cands : \A k \in cands : k <= j
       ELSE 0

\* a faulty SegmentTest: the wildcard segment keeps its literal test
SegmentTestNoWildcard(segment, inner, paren, wasWildcard) ==
    IF Len(inner) = 0 THEN << "^" >> \o escapeRegExp(segment) \o << "$" >>
    ELSE IF paren > 0
         THEN << "^" >> \o SubSeq(inner, paren + 1, Len(inner) - 1) \o << "$" >>
    ELSE << ".", "+" >>

\* the RegExp source of a segment: inner is its bracket interior (<< >> when
\* it has none), paren the position ConstraintParen found
SegmentTest(segment, inner, paren, wasWildcard) ==
    IF wasWildcard THEN << ".", "*" >>
    ELSE IF Len(inner) = 0 THEN << "^" >> \o escapeRegExp(segment) \o << "$" >>
    ELSE IF paren > 0
         THEN << "^" >> \o SubSeq(inner, paren + 1, Len(inner) - 1) \o << "$" >>
    ELSE << ".", "+" >>

\* a faulty SegmentError: a second spread segment is let through
SegmentErrorManySpreads(isSpread, isOptional, wasSpread, isWild, idx, count, regexValid) ==
    IF isSpread /\ isOptional THEN "Spread segment must not be marked as optional"
    ELSE IF isWild /\ idx < count THEN "Wildcard can be used only as a last segment"
    ELSE IF ~regexValid THEN "Invalid regex in route pattern"
    ELSE NoError

\* what the reduce callback throws for a segment, or NoError
SegmentError(isSpread, isOptional, wasSpread, isWild, idx, count, regexValid) ==
    IF isSpread /\ isOptional THEN "Spread segment must not be marked as optional"
    ELSE IF isSpread /\ wasSpread THEN "Multiple spread segments are invalid"
    ELSE IF isWild /\ idx < count THEN "Wildcard can be used only as a last segment"
    ELSE IF ~regexValid THEN "Invalid regex in route pattern"
    ELSE NoError

\* one step of the reduce callback: st is [memo, wasSpread, wasWildcard, error]
ParseSegment(st, rawSegment, idx, all) ==
    LET opt0 == EndsWith(rawSegment, << "?" >>)
        seg1 == IF opt0 THEN SubSeq(rawSegment, 1, Len(rawSegment) - 1) ELSE rawSegment
        isSpread == StartsWith(seg1, << "[", ".", ".", "." >>)
        segment == IF isSpread THEN << "[" >> \o Drop(seg1, 4) ELSE seg1
        isWild == segment = << WILDCARD >>
        inner == IF isWild THEN << >> ELSE BracketInterior(segment)
        paren == IF Len(inner) > 0 THEN ConstraintParen(inner) ELSE 0
        name == IF Len(inner) = 0 THEN NoName
                ELSE IF paren > 0 THEN SubSeq(inner, 1, paren - 1)
                ELSE inner
        wasWildcard == st.wasWildcard \/ isWild
        test == SegmentTest(segment, inner, paren, wasWildcard)
        regexValid == paren > 0 => RegExpValid(SegmentTest(segment, inner, paren, FALSE))
        err == SegmentError(isSpread, opt0, st.wasSpread, isWild, idx, Len(all), regexValid)
    IN IF err # NoError
       THEN [st EXCEPT !.error = err]
       ELSE [memo |-> Append(st.memo,
                             [segment |-> segment, name |-> name, test |-> test,
                              isOptional |-> (opt0 \/ wasWildcard), isSpread |-> isSpread]),
             wasSpread |-> (st.wasSpread \/ isSpread),
             wasWildcard |-> wasWildcard,
             error |-> NoError]

RECURSIVE ParseReduce(_, _, _)
ParseReduce(st, idx, all) ==
    IF idx > Len(all) \/ st.error # NoError THEN st
    ELSE ParseReduce(ParseSegment(st, all[idx], idx, all), idx + 1, all)

\* SimpleRoute.#parse(route): [error, parsed]; error # NoError is a throw and
\* then no Pattern exists
CompileRoute(r) ==
    LET st == ParseReduce([memo |-> << >>, wasSpread |-> FALSE, wasWildcard |-> FALSE,
                           error |-> NoError], 1, sanitizeAndSplit(r))
    IN [error |-> st.error, parsed |-> IF st.error = NoError THEN st.memo ELSE << >>]

\* a faulty QueryPair: the first pair of a key keeps its value
QueryPairFirstWins(memo, kvpair) ==
    LET kv == Split(kvpair, "=")
        k == kv[1]
        v == IF Len(kv) >= 2 THEN kv[2] ELSE << >>
        dk == decodeURIComponent(k)
        dv == IF Len(v) > 0 THEN decodeURIComponent(v) ELSE [ok |-> TRUE, val |-> << >>]
        key == IF dk.ok /\ dv.ok THEN dk.val ELSE k
    IN IF Len(k) = 0 \/ key \in DOMAIN memo THEN memo
       ELSE IF dk.ok /\ dv.ok THEN Put(memo, dk.val, dv.val)
       ELSE Put(memo, k, v)

(***************************************************************************)
(* SimpleRoute.parseQueryString                                            *)
(***************************************************************************)
\* one step of the reduce callback
QueryPair(memo, kvpair) ==
    LET kv == Split(kvpair, "=")
        k == kv[1]
        v == IF Len(kv) >= 2 THEN kv[2] ELSE << >>
        dk == decodeURIComponent(k)
        dv == IF Len(v) > 0 THEN decodeURIComponent(v) ELSE [ok |-> TRUE, val |-> << >>]
    IN IF Len(k) = 0 THEN memo
       ELSE IF dk.ok /\ dv.ok THEN Put(memo, dk.val, dv.val)
       ELSE Put(memo, k, v)

RECURSIVE QueryReduce(_, _)
QueryReduce(memo, pairs) ==
    IF Len(pairs) = 0 THEN memo
    ELSE QueryReduce(QueryPair(memo, pairs[1]), Tail(pairs))

parseQueryString(str) ==
    LET s1 == IF StartsWith(str, << "&" >>) THEN Tail(str) ELSE str
        s2 == IF EndsWith(s1, << "&" >>) THEN SubSeq(s1, 1, Len(s1) - 1) ELSE s1
    IN QueryReduce(EmptyParams, Split(s2, "&"))

(***************************************************************************)
(* SimpleRoute.parse: the matcher.  The returned value is a record         *)
(* [isNull, params]: isNull is the code's null (no match), params the      *)
(* returned object otherwise.                                              *)
(***************************************************************************)
Null == [isNull |-> TRUE, params |-> EmptyParams]

Matched(m) == [isNull |-> FALSE, params |-> m]

\* a faulty SplitUrl: the candidate is split at "?" whatever the flag says
SplitUrlAlways(u, allow) ==
    LET qPos == IndexOf(u, "?")
    IN IF qPos # 0
       THEN [path |-> SubSeq(u, 1, qPos - 1),
             matched |-> parseQueryString(SubSeq(u, qPos + 1, Len(u)))]
       ELSE [path |-> u, matched |-> EmptyParams]

\* a faulty SplitUrl: the query string is parsed but not cut off the path
SplitUrlKeepsQueryInPath(u, allow) ==
    LET qPos == IndexOf(u, "?")
    IN IF allow /\ qPos # 0
       THEN [path |-> u,
             matched |-> parseQueryString(SubSeq(u, qPos + 1, Len(u)))]
       ELSE [path |-> u, matched |-> EmptyParams]

\* the query seed and the path part of the candidate
SplitUrl(u, allow) ==
    LET qPos == IndexOf(u, "?")
    IN IF allow /\ qPos # 0
       THEN [path |-> SubSeq(u, 1, qPos - 1),
             matched |-> parseQueryString(SubSeq(u, qPos + 1, Len(u)))]
       ELSE [path |-> u, matched |-> EmptyParams]

\* a faulty ReflowStep: a spread in last position takes one candidate segment
ReflowStepLastTakesOne(configs, i, st) ==
    IF configs[i].isSpread /\ i < Len(configs)
    THEN [newSegments |-> Append(st.newSegments,
                                 Join(Take(st.segments, Len(configs) - i + 1), SPLITTER)),
          segments |-> Drop(st.segments, Len(configs) - i + 1)]
    ELSE [newSegments |-> st.newSegments \o Take(st.segments, 1),
          segments |-> Drop(st.segments, 1)]

\* the forEach of the spread block: st is [segments, newSegments]
ReflowStep(configs, i, st) ==
    IF configs[i].isSpread
    THEN IF i < Len(configs)
         THEN \* the code's index is i - 1, so configs.length - index is Len - i + 1
              [newSegments |-> Append(st.newSegments,
                                      Join(Take(st.segments, Len(configs) - i + 1), SPLITTER)),
               segments |-> Drop(st.segments, Len(configs) - i + 1)]
         ELSE [newSegments |-> Append(st.newSegments, Join(st.segments, SPLITTER)),
               segments |-> st.segments]
    ELSE [newSegments |-> st.newSegments \o Take(st.segments, 1),
          segments |-> Drop(st.segments, 1)]

RECURSIVE ReflowLoop(_, _, _)
ReflowLoop(configs, i, st) ==
    IF i > Len(configs) THEN st
    ELSE ReflowLoop(configs, i + 1, ReflowStep(configs, i, st))

\* the spread block: the candidate segments the segment loop runs over
Reflow(configs, raw) ==
    IF \E i \in 1..Len(configs) : configs[i].isSpread
    THEN ReflowLoop(configs, 1, [segments |-> raw, newSegments |-> << >>]).newSegments
    ELSE raw

\* a faulty reqLen: no candidate is refused for its length
reqLenNone(configs) == 0

\* a faulty reqLen: every pattern segment is required
reqLenAllSegments(configs) == Len(configs)

\* a faulty reqLen: only the segments not marked optional are required
reqLenMandatoryOnly(configs) ==
    Cardinality({ i \in 1..Len(configs) : ~configs[i].isOptional })

\* minimum required (not optional) segments length
reqLen(configs) ==
    Cardinality({ i \in 1..Len(configs) :
                     \/ ~configs[i].isOptional
                     \/ (i < Len(configs) /\ ~configs[i + 1].isOptional) })

\* a faulty Capture: a key the query seed already holds keeps its value
CaptureKeepsQuery(matched, p, s) ==
    LET dn == decodeURIComponent(p.name)
        ds == decodeURIComponent(s)
        k == IF dn.ok /\ ds.ok THEN dn.val ELSE p.name
        v == IF dn.ok /\ ds.ok THEN ds.val ELSE s
    IN IF k \in DOMAIN matched THEN matched ELSE Put(matched, k, v)

\* a faulty Capture: a capture that fails to decode is not written
CaptureDropsMalformed(matched, p, s) ==
    LET dn == decodeURIComponent(p.name)
        ds == decodeURIComponent(s)
    IN IF dn.ok /\ ds.ok THEN Put(matched, dn.val, ds.val)
       ELSE matched

\* the capture written for pattern segment p and candidate segment s
Capture(matched, p, s) ==
    LET dn == decodeURIComponent(p.name)
        ds == decodeURIComponent(s)
    IN IF dn.ok /\ ds.ok THEN Put(matched, dn.val, ds.val)
       ELSE Put(matched, p.name, s)

\* the segment loop, from candidate segment i on
RECURSIVE SegmentLoop(_, _, _, _)
SegmentLoop(configs, segs, i, matched) ==
    IF i > Len(segs) THEN Matched(matched)
    ELSE IF i > Len(configs) \/ ~RegExpTest(configs[i].test, segs[i]) THEN Null
    ELSE LET m == IF configs[i].name # NoName
                  THEN Capture(matched, configs[i], segs[i])
                  ELSE matched
         IN IF configs[i].segment = << WILDCARD >> THEN Matched(m)
            ELSE SegmentLoop(configs, segs, i + 1, m)

\* a faulty ParseTrace: the early return for a leading wildcard gives {}
ParseTraceWildcardEmpty(configs, u, allow) ==
    LET q == SplitUrl(u, allow)
        raw == sanitizeAndSplit(q.path)
        segs == Reflow(configs, raw)
        res == IF Len(configs) > 0 /\ configs[1].segment = << WILDCARD >>
                  THEN Matched(EmptyParams)
                  ELSE IF Len(segs) < reqLen(configs) THEN Null
                  ELSE SegmentLoop(configs, segs, 1, q.matched)
    IN [result |-> res, rawSegments |-> raw, segments |-> segs, seed |-> q.matched]

\* parse(url, allowQueryParams) with the values of its local variables:
\* rawSegments is segments after #sanitizeAndSplit, segments after the spread
\* block
ParseTrace(configs, u, allow) ==
    LET q == SplitUrl(u, allow)
        raw == sanitizeAndSplit(q.path)
        segs == Reflow(configs, raw)
        res == IF Len(configs) > 0 /\ configs[1].segment = << WILDCARD >>
                  THEN Matched(q.matched)
                  ELSE IF Len(segs) < reqLen(configs) THEN Null
                  ELSE SegmentLoop(configs, segs, 1, q.matched)
    IN [result |-> res, rawSegments |-> raw, segments |-> segs, seed |-> q.matched]

Parse(configs, u, allow) == ParseTrace(configs, u, allow).result

(***************************************************************************)
(* Explored inputs.                                                        *)
(***************************************************************************)
\* pattern segments as they are written in a pattern string:
\* a, [x], [y]?, [...p], *, [...p]?
PatternAtoms ==
    { << "a" >>,
      << "[", "x", "]" >>,
      << "[", "y", "]", "?" >>,
      << "[", ".", ".", ".", "p", "]" >>,
      << "*" >>,
      << "[", ".", ".", ".", "p", "]", "?" >> }

\* all sequences over S of length at most n
SeqsUpTo(S, n) == UNION { [1..k -> S] : k \in 0..n }

\* the pattern string of a list of pattern segments: /seg/seg...
PatternOf(atoms) == << SPLITTER >> \o Join(atoms, SPLITTER)

\* the pattern strings handed to the SimpleRoute constructor
PatternStrings == { PatternOf(atoms) : atoms \in SeqsUpTo(PatternAtoms, MaxPatSegs) }

\* candidate segment texts: a and b%20
UrlSegTexts == { << "a" >>, << "b", "%", "2", "0" >> }

\* query suffixes of a candidate: none, or ?x=q&y=q&z=%20
QuerySuffixes ==
    { << >>,
      << "?", "x", "=", "q", "&", "y", "=", "q", "&", "z", "=", "%", "2", "0" >> }

\* the candidate strings handed to parse
UrlStrings ==
    { << SPLITTER >> \o Join(segs, SPLITTER) \o q :
         segs \in SeqsUpTo(UrlSegTexts, MaxUrlSegs), q \in QuerySuffixes }

\* parts joined with the separator text sep (one or more characters)
RECURSIVE JoinWith(_, _)
JoinWith(parts, sep) ==
    IF Len(parts) = 0 THEN << >>
    ELSE IF Len(parts) = 1 THEN parts[1]
    ELSE parts[1] \o sep \o JoinWith(Tail(parts), sep)

\* separator runs put before, between and after the segments of a string
LeadRuns == { << >>, << SPLITTER, SPLITTER >> }

InnerRuns == { << SPLITTER >>, << SPLITTER, SPLITTER >> }

TrailRuns == { << >>, << SPLITTER, SPLITTER >> }

\* the ways of writing a list of segments with those separator runs
Spellings(parts) ==
    { lead \o JoinWith(parts, inner) \o trail :
         lead \in LeadRuns, inner \in InnerRuns, trail \in TrailRuns }

\* pattern strings with leading, trailing and repeated separators, over the
\* segments a, [x] and [y]?
SepPatternAtoms == { << "a" >>, << "[", "x", "]" >>, << "[", "y", "]", "?" >> }

SepPatternStrings ==
    UNION { Spellings(atoms) : atoms \in SeqsUpTo(SepPatternAtoms, MaxSepSegs) }

\* candidates with leading, trailing and repeated separators in their path
SepUrlStrings ==
    UNION { { p \o q : p \in Spellings(segs), q \in QuerySuffixes } :
               segs \in SeqsUpTo(UrlSegTexts, MaxSepSegs) }

\* patterns whose capture names are well-formed, malformed and percent-encoded:
\* /[x], /[n%], /[n%41], /a/[x]?, /[...p], /[x]/[n%]
DecodePatterns ==
    { << "/", "[", "x", "]" >>,
      << "/", "[", "n", "%", "]" >>,
      << "/", "[", "n", "%", "4", "1", "]" >>,
      << "/", "a", "/", "[", "x", "]", "?" >>,
      << "/", "[", ".", ".", ".", "p", "]" >>,
      << "/", "[", "x", "]", "/", "[", "n", "%", "]" >> }

\* candidate segment texts: a, % (malformed) and b%20
DecodeSegTexts == { << "a" >>, << "%" >>, << "b", "%", "2", "0" >> }

\* query pairs << key, value >>: k=%, %=v (malformed), k=%20 and x=%41
DecodePairs ==
    { << << "k" >>, << "%" >> >>,
      << << "%" >>, << "v" >> >>,
      << << "k" >>, << "%", "2", "0" >> >>,
      << << "x" >>, << "%", "4", "1" >> >> }

\* a candidate by its parts: path segments and query pairs
DecodeParts ==
    { [segs |-> s, pairs |-> q] :
         s \in SeqsUpTo(DecodeSegTexts, MaxDecodeSegs),
         q \in SeqsUpTo(DecodePairs, MaxDecodePairs) }

\* the text k=v&k=v... of a list of query pairs
RECURSIVE PairsText(_)
PairsText(pairs) ==
    IF Len(pairs) = 0 THEN << >>
    ELSE pairs[1][1] \o << "=" >> \o pairs[1][2]
            \o (IF Len(pairs) = 1 THEN << >> ELSE << "&" >> \o PairsText(Tail(pairs)))

\* the candidate string of the parts x: /seg/seg?k=v&k=v
DecodeUrl(x) ==
    << SPLITTER >> \o Join(x.segs, SPLITTER)
       \o (IF Len(x.pairs) = 0 THEN << >> ELSE << "?" >> \o PairsText(x.pairs))

DecodeUrls == { DecodeUrl(x) : x \in DecodeParts }

\* patterns matched repeatedly: /a, /[x], /a/[y]?, /[...p]/a, /[x]/*
PurePatterns ==
    { << "/", "a" >>,
      << "/", "[", "x", "]" >>,
      << "/", "a", "/", "[", "y", "]", "?" >>,
      << "/", "[", ".", ".", ".", "p", "]", "/", "a" >>,
      << "/", "[", "x", "]", "/", "*" >> }

\* the candidates handed to the repeated parse calls
PureUrls ==
    { << SPLITTER >> \o Join(segs, SPLITTER) \o q :
         segs \in SeqsUpTo(UrlSegTexts, MaxPureSegs), q \in QuerySuffixes }

\* texts between the "&" of a query string: k=v, k (no "="), =v (empty key),
\* the empty text, k=w, j=%20, %6b=x (the key decodes to k) and k=% (malformed)
QueryPairTexts ==
    { << "k", "=", "v" >>,
      << "k" >>,
      << "=", "v" >>,
      << >>,
      << "k", "=", "w" >>,
      << "j", "=", "%", "2", "0" >>,
      << "%", "6", "b", "=", "x" >>,
      << "k", "=", "%" >> }

\* the candidates /a?text&text...
QueryUrls ==
    { << SPLITTER, "a", "?" >> \o Join(texts, "&") :
         texts \in SeqsUpTo(QueryPairTexts, MaxQueryPairs) }

\* patterns without captures: /a and /*
QueryPatterns == { << SPLITTER, "a" >>, << SPLITTER, WILDCARD >> }

\* patterns with a constrained capture: /[t(r|m)], /[t(r)], /[t(r+)], /a/[t(r|m)]?
ConstraintPatterns ==
    { << "/", "[", "t", "(", "r", "|", "m", ")", "]" >>,
      << "/", "[", "t", "(", "r", ")", "]" >>,
      << "/", "[", "t", "(", "r", "+", ")", "]" >>,
      << "/", "a", "/", "[", "t", "(", "r", "|", "m", ")", "]", "?" >> }

\* candidate segment texts: an accepted word, another, one that starts with
\* an accepted word, one that ends with one, and a
ConstraintSegTexts ==
    { << "r" >>, << "m" >>, << "r", "x" >>, << "x", "m" >>, << "a" >> }

ConstraintUrls ==
    { << SPLITTER >> \o Join(segs, SPLITTER) :
         segs \in SeqsUpTo(ConstraintSegTexts, MaxConstraintSegs) }

\* route patterns given to the router's on(): /a, /a/[y]?, * and the
\* invalid [...p]?
RouterPatterns ==
    { << "/", "a" >>,
      << "/", "a", "/", "[", "y", "]", "?" >>,
      << "*" >>,
      << "[", ".", ".", ".", "p", "]", "?" >> }

\* strings given to the router's exec(): /a, /b, /a/b?y=q
RouterUrls ==
    { << "/", "a" >>,
      << "/", "b" >>,
      << "/", "a", "/", "b", "?", "y", "=", "q" >> }

\* callback functions and the value each returns
Callbacks == { "cbA", "cbB" }

\* cbA returns "A", cbThrows throws, the others return false
CallbackReturn(cb) ==
    IF cb = "cbA" THEN "A" ELSE IF cb = "cbThrows" THEN "threw" ELSE "false"

\* the absent fallbackFn argument / the unset #catchAll
NoCallback == "none"

\* label: null, or a string
NoLabel == "null-label"

\* the options objects given to on(): {} and {label: "L", allowQueryParams: false}
OnOptions ==
    { [label |-> NoLabel, allowQueryParams |-> TRUE],
      [label |-> "L", allowQueryParams |-> FALSE] }

\* keys of the config objects given to the constructor: /a, *, /a/[y]?, and
\* the one-segment patterns routes and logger
ConfigKeys ==
    { << "/", "a" >>,
      << "*" >>,
      << "/", "a", "/", "[", "y", "]", "?" >>,
      << "r", "o", "u", "t", "e", "s" >>,
      << "l", "o", "g", "g", "e", "r" >> }

\* strings given to exec() of a router constructed from a config: /a, /routes, /b
ConfigUrls ==
    { << "/", "a" >>,
      << "/", "r", "o", "u", "t", "e", "s" >>,
      << "/", "b" >> }

\* callbacks of a config object; cbThrows throws when it is called
ConfigCallbacks == { "cbA", "cbThrows" }

\* a property value of a config object: a function, or an object of entries
FunctionValue(cb) == [kind |-> "function", fn |-> cb, entries |-> << >>]

ObjectValue(entries) == [kind |-> "object", fn |-> NoCallback, entries |-> entries]

\* plain config objects {pattern: callback, ...}: the entries in key order,
\* no key twice
PlainConfigs ==
    { c \in UNION { [1..n -> [key : ConfigKeys, value : { FunctionValue(cb) : cb \in ConfigCallbacks }]] :
                        n \in 0..MaxConfigKeys } :
         \A i, j \in 1..Len(c) : i # j => c[i].key # c[j].key }

\* the config objects given to the constructor: the plain ones, and the
\* options objects {routes: {/a: cbA}} and {routes: {/a: cbA, *: cbThrows}}
ConfigObjects ==
    PlainConfigs
       \cup { << [key |-> << "r", "o", "u", "t", "e", "s" >>,
                  value |-> ObjectValue(<< [key |-> << "/", "a" >>,
                                            value |-> FunctionValue("cbA")] >>)] >>,
              << [key |-> << "r", "o", "u", "t", "e", "s" >>,
                  value |-> ObjectValue(<< [key |-> << "/", "a" >>,
                                            value |-> FunctionValue("cbA")],
                                           [key |-> << "*" >>,
                                            value |-> FunctionValue("cbThrows")] >>)] >> }

\* the functions given to subscribe()
Subscribers == { "s1", "s2" }

(***************************************************************************)
(* State.                                                                  *)
(***************************************************************************)
VARIABLES
    \* a SimpleRoute under test and the last parse call on it
    phase,              \* "new", "threw", "compiled" or "parsed"
    route,              \* SimpleRoute.route
    parsed,             \* SimpleRoute.#parsed
    error,              \* what the constructor threw, or NoError
    url,                \* argument of the last parse call
    allowQueryParams,   \* argument of the last parse call
    result,             \* what the last parse call returned
    rawSegments,        \* parse's segments after #sanitizeAndSplit
    segments,           \* parse's segments after the spread block
    \* a SimpleRouter
    routes,             \* SimpleRouter.#routes
    catchAll,           \* SimpleRouter.#catchAll
    current,            \* SimpleRouter.#current
    subscribers,        \* the subscribers of SimpleRouter.#pubsub, in subscription order
    op,                 \* the last router call and its arguments
    calls,              \* the functions the last router call invoked, in order
    returned            \* what the last router call returned or threw

routeVars == << phase, route, parsed, error, url, allowQueryParams, result,
                rawSegments, segments >>

routerVars == << routes, catchAll, current, subscribers, op, calls, returned >>

vars == << phase, route, parsed, error, url, allowQueryParams, result,
           rawSegments, segments, routes, catchAll, current, subscribers, op,
           calls, returned >>

\* route of RouterCurrent: null or a string
NullRoute == [isNull |-> TRUE, str |-> << >>]

RouteStr(r) == [isNull |-> FALSE, str |-> r]

\* the initial #current
InitialCurrent == [route |-> NullRoute, params |-> Null, label |-> NoLabel]

\* the call made last: its name and its arguments (none yet)
NoOp ==
    [name |-> "none", url |-> << >>, fallbackFn |-> NoCallback,
     subscription |-> NoCallback, config |-> << >>]

Init ==
    /\ phase = "new"
    /\ route = << >>
    /\ parsed = << >>
    /\ error = NoError
    /\ url = << >>
    /\ allowQueryParams = TRUE
    /\ result = Null
    /\ rawSegments = << >>
    /\ segments = << >>
    /\ routes = << >>
    /\ catchAll = NoCallback
    /\ current = InitialCurrent
    /\ subscribers = << >>
    /\ op = NoOp
    /\ calls = << >>
    /\ returned = "none"

(***************************************************************************)
(* SimpleRoute: constructor and parse.                                     *)
(***************************************************************************)
\* new SimpleRoute(r)
Construct(r) ==
    /\ phase = "new"
    /\ LET c == CompileRoute(r)
       IN /\ route' = r
          /\ error' = c.error
          /\ parsed' = c.parsed
          /\ phase' = IF c.error = NoError THEN "compiled" ELSE "threw"
    /\ UNCHANGED << url, allowQueryParams, result, rawSegments, segments >>
    /\ UNCHANGED routerVars

\* route.parse(u, allow) on the constructed SimpleRoute
ParseCall(u, allow) ==
    /\ phase = "compiled"
    /\ LET t == ParseTrace(parsed, u, allow)
       IN /\ url' = u
          /\ allowQueryParams' = allow
          /\ result' = t.result
          /\ rawSegments' = t.rawSegments
          /\ segments' = t.segments
    /\ phase' = "parsed"
    /\ UNCHANGED << route, parsed, error >>
    /\ UNCHANGED routerVars

NextRoute ==
    \/ \E r \in PatternStrings : Construct(r)
    \/ \E u \in UrlStrings, allow \in BOOLEAN : ParseCall(u, allow)

SpecRoute == Init /\ [][NextRoute]_vars

\* the same calls on patterns and candidates written with extra separators
NextSep ==
    \/ \E r \in SepPatternStrings : Construct(r)
    \/ \E u \in SepUrlStrings, allow \in BOOLEAN : ParseCall(u, allow)

SpecSep == Init /\ [][NextSep]_vars

\* the same calls on patterns and candidates with malformed percent-encodings
NextDecode ==
    \/ \E r \in DecodePatterns : Construct(r)
    \/ \E u \in DecodeUrls, allow \in BOOLEAN : ParseCall(u, allow)

SpecDecode == Init /\ [][NextDecode]_vars

\* the same calls on candidates with generated query strings
NextQuery ==
    \/ \E r \in QueryPatterns : Construct(r)
    \/ \E u \in QueryUrls, allow \in BOOLEAN : ParseCall(u, allow)

SpecQuery == Init /\ [][NextQuery]_vars

\* the same calls on patterns with constrained captures
NextConstraint ==
    \/ \E r \in ConstraintPatterns : Construct(r)
    \/ \E u \in ConstraintUrls, allow \in BOOLEAN : ParseCall(u, allow)

SpecConstraint == Init /\ [][NextConstraint]_vars

\* a faulty ParseAgain: the result of the earlier call is returned again
ParseAgainStale(u, allow) ==
    /\ phase \in { "parsed", "reparsed" }
    /\ url' = u
    /\ allowQueryParams' = allow
    /\ phase' = "reparsed"
    /\ UNCHANGED << result, rawSegments, segments >>
    /\ UNCHANGED << route, parsed, error >>
    /\ UNCHANGED routerVars

\* a further route.parse(u, allow) on a SimpleRoute that has parsed before
ParseAgain(u, allow) ==
    /\ phase \in { "parsed", "reparsed" }
    /\ LET t == ParseTrace(parsed, u, allow)
       IN /\ url' = u
          /\ allowQueryParams' = allow
          /\ result' = t.result
          /\ rawSegments' = t.rawSegments
          /\ segments' = t.segments
    /\ phase' = "reparsed"
    /\ UNCHANGED << route, parsed, error >>
    /\ UNCHANGED routerVars

\* any sequence of parse calls on one SimpleRoute
NextPure ==
    \/ \E r \in PurePatterns : Construct(r)
    \/ \E u \in PureUrls, allow \in BOOLEAN : ParseCall(u, allow)
    \/ \E u \in PureUrls, allow \in BOOLEAN : ParseAgain(u, allow)

SpecPure == Init /\ [][NextPure]_vars

(***************************************************************************)
(* SimpleRouter.                                                           *)
(***************************************************************************)
\* the arrays of route patterns given to on(): every single pattern (a
\* string is [string]), and the arrays [/a, [...p]?] and [/a/[y]?, *]
OnRouteLists ==
    { << r >> : r \in RouterPatterns }
       \cup { << << "/", "a" >>, << "[", ".", ".", ".", "p", "]", "?" >> >>,
              << << "/", "a", "/", "[", "y", "]", "?" >>, << "*" >> >> }

\* new SimpleRoute(r) for the patterns the router is given, computed once
CompiledRoutes ==
    { [route |-> r, compiled |-> CompileRoute(r)] : r \in RouterPatterns \cup ConfigKeys }

NewSimpleRoute(r) == (CHOOSE t \in CompiledRoutes : t.route = r).compiled

\* route.parse(u, allow) for the routes and strings the router is given,
\* computed once
ParsedUrls ==
    { [route |-> t.route, url |-> u, allow |-> allow,
       result |-> Parse(t.compiled.parsed, u, allow)] :
         t \in { x \in CompiledRoutes : x.compiled.error = NoError },
         u \in RouterUrls \cup ConfigUrls, allow \in BOOLEAN }

RouteParse(r, u, allow) ==
    (CHOOSE t \in ParsedUrls : t.route = r /\ t.url = u /\ t.allow = allow).result

\* one function call made by a router method: a subscriber called with the
\* router's current state, or a callback called with (params, route)
SubscriberCall(s, cur) == [kind |-> "subscriber", fn |-> s, current |-> cur]

CallbackCall(cb, params, r) == [kind |-> "callback", fn |-> cb, params |-> params, route |-> r]

\* a faulty publish: only the first subscriber is called
PublishCallsFirstOnly(subs, cur) ==
    IF Len(subs) = 0 THEN << >> ELSE << SubscriberCall(subs[1], cur) >>

\* #pubsub.publish(PUBSUB_TOPIC, cur): every subscriber is called with cur
PublishCalls(subs, cur) == [i \in 1..Len(subs) |-> SubscriberCall(subs[i], cur)]

\* the forEach of on(): st is [routes, catchAll, threw]; a throwing
\* SimpleRoute constructor ends the loop and keeps what was registered before
RECURSIVE OnLoop(_, _, _, _)
OnLoop(st, rs, cb, options) ==
    IF Len(rs) = 0 THEN st
    ELSE IF rs[1] = << "*" >>
         THEN OnLoop([st EXCEPT !.catchAll = cb], Tail(rs), cb, options)
    ELSE LET c == NewSimpleRoute(rs[1])
         IN IF c.error # NoError THEN [st EXCEPT !.threw = TRUE]
            ELSE OnLoop([st EXCEPT !.routes =
                            Append(@, [route |-> rs[1], cb |-> cb,
                                       allowQueryParams |-> options.allowQueryParams,
                                       label |-> options.label])],
                        Tail(rs), cb, options)

\* on(rs, cb, options)
On(rs, cb, options) ==
    /\ Len(routes) + Len(rs) <= MaxRoutes
    /\ LET st == OnLoop([routes |-> routes, catchAll |-> catchAll, threw |-> FALSE],
                        rs, cb, options)
       IN /\ routes' = st.routes
          /\ catchAll' = st.catchAll
          /\ returned' = IF st.threw THEN "threw" ELSE "undefined"
    /\ op' = [NoOp EXCEPT !.name = "on"]
    /\ calls' = << >>
    /\ UNCHANGED << current, subscribers >>
    /\ UNCHANGED routeVars

\* the value of the property key of the object entries, or the undefined
\* value (an object without entries stands for it) when it has none
PropertyOf(entries, key) ==
    IF \E i \in 1..Len(entries) : entries[i].key = key
    THEN entries[CHOOSE i \in 1..Len(entries) : entries[i].key = key].value
    ELSE ObjectValue(<< >>)

\* the routes object the constructor takes from its config argument:
\* config.routes when config has a key routes or logger, else config itself
RoutesOfConfig(config) ==
    IF \E i \in 1..Len(config) :
          config[i].key \in { << "r", "o", "u", "t", "e", "s" >>,
                              << "l", "o", "g", "g", "e", "r" >> }
    THEN PropertyOf(config, << "r", "o", "u", "t", "e", "s" >>)
    ELSE ObjectValue(config)

\* Object.entries(v): the entries of an object; a function has none
ObjectEntries(v) == IF v.kind = "object" THEN v.entries ELSE << >>

\* the forEach of the constructor: this.on(route, cb) for each entry, until
\* one call throws
RECURSIVE ConstructorLoop(_, _)
ConstructorLoop(st, entries) ==
    IF Len(entries) = 0 \/ st.threw THEN st
    ELSE ConstructorLoop(OnLoop(st, << entries[1].key >>, entries[1].value.fn,
                                [label |-> NoLabel, allowQueryParams |-> TRUE]),
                         Tail(entries))

\* new SimpleRouter(config), from the state the field initialisers leave
Constructor(config) ==
    /\ op.name = "none"
    /\ LET st == ConstructorLoop([routes |-> routes, catchAll |-> catchAll, threw |-> FALSE],
                                 ObjectEntries(RoutesOfConfig(config)))
       IN /\ routes' = st.routes
          /\ catchAll' = st.catchAll
          /\ returned' = IF st.threw THEN "threw" ELSE "router"
    /\ op' = [NoOp EXCEPT !.name = "constructor", !.config = config]
    /\ calls' = << >>
    /\ UNCHANGED << current, subscribers >>
    /\ UNCHANGED routeVars

\* a faulty FirstMatch: the last matching route is taken
LastMatch(rts, u) ==
    LET hits == { i \in 1..Len(rts) :
                     ~RouteParse(rts[i].route, u, rts[i].allowQueryParams).isNull }
    IN IF hits = {} THEN 0 ELSE CHOOSE i \in hits : \A j \in hits : i >= j

\* the index of the first route of rts whose parse of u is not null, or 0
FirstMatch(rts, u) ==
    LET hits == { i \in 1..Len(rts) :
                     ~RouteParse(rts[i].route, u, rts[i].allowQueryParams).isNull }
    IN IF hits = {} THEN 0 ELSE CHOOSE i \in hits : \A j \in hits : i <= j

\* a faulty MatchedBranch: the label of the matched route is not published
MatchedBranchNoLabel(entry, params) ==
    [current |-> [route |-> RouteStr(entry.route), params |-> params, label |-> NoLabel],
     callback |-> entry.cb, params |-> params, route |-> entry.route]

\* the branch of exec for a route that matched with params
MatchedBranch(entry, params) ==
    [current |-> [route |-> RouteStr(entry.route), params |-> params, label |-> entry.label],
     callback |-> entry.cb, params |-> params, route |-> entry.route]

\* a faulty exec: the catch-all, when registered, is taken before the routes
ExecBranchAtCatchAllBeforeRoutes(rts, catch, u, fallbackFn, i) ==
    IF catch # NoCallback /\ fallbackFn = NoCallback
    THEN [current |-> [route |-> RouteStr(<< "*" >>), params |-> Null, label |-> NoLabel],
          callback |-> catch, params |-> Null, route |-> << "*" >>]
    ELSE IF i > 0
    THEN MatchedBranch(rts[i], RouteParse(rts[i].route, u, rts[i].allowQueryParams))
    ELSE IF fallbackFn # NoCallback
    THEN [current |-> InitialCurrent, callback |-> fallbackFn, params |-> Null,
          route |-> << >>]
    ELSE [current |-> InitialCurrent, callback |-> NoCallback, params |-> Null,
          route |-> << >>]

\* a faulty exec: the catch-all is tried before fallbackFn
ExecBranchAtCatchAllFirst(rts, catch, u, fallbackFn, i) ==
    IF i > 0
    THEN MatchedBranch(rts[i], RouteParse(rts[i].route, u, rts[i].allowQueryParams))
    ELSE IF catch # NoCallback
    THEN [current |-> [route |-> RouteStr(<< "*" >>), params |-> Null, label |-> NoLabel],
          callback |-> catch, params |-> Null, route |-> << "*" >>]
    ELSE IF fallbackFn # NoCallback
    THEN [current |-> InitialCurrent, callback |-> fallbackFn, params |-> Null,
          route |-> << >>]
    ELSE [current |-> InitialCurrent, callback |-> NoCallback, params |-> Null,
          route |-> << >>]

\* exec(u, fallbackFn): [current, callback, params, route] of the branch taken,
\* i being the first matching route (0: none); callback NoCallback is the
\* final "return false"
ExecBranchAt(rts, catch, u, fallbackFn, i) ==
    IF i > 0
    THEN MatchedBranch(rts[i], RouteParse(rts[i].route, u, rts[i].allowQueryParams))
    ELSE IF fallbackFn # NoCallback
    THEN [current |-> InitialCurrent, callback |-> fallbackFn, params |-> Null,
          route |-> << >>]
    ELSE IF catch # NoCallback
    THEN [current |-> [route |-> RouteStr(<< "*" >>), params |-> Null, label |-> NoLabel],
          callback |-> catch, params |-> Null, route |-> << "*" >>]
    ELSE [current |-> InitialCurrent, callback |-> NoCallback, params |-> Null,
          route |-> << >>]

ExecBranch(rts, catch, u, fallbackFn) ==
    ExecBranchAt(rts, catch, u, fallbackFn, FirstMatch(rts, u))

\* a faulty exec: the callback of the branch b runs before #publishCurrent,
\* which a throwing callback therefore prevents
ExecRunDispatchFirst(u, fallbackFn, b) ==
    /\ current' = IF b.callback # NoCallback /\ CallbackReturn(b.callback) = "threw"
                  THEN current ELSE b.current
    /\ calls' = (IF b.callback = NoCallback THEN << >>
                 ELSE << CallbackCall(b.callback, b.params, b.route) >>)
                   \o (IF b.callback # NoCallback /\ CallbackReturn(b.callback) = "threw"
                       THEN << >> ELSE PublishCalls(subscribers, b.current))
    /\ returned' = IF b.callback = NoCallback THEN "false" ELSE CallbackReturn(b.callback)
    /\ op' = [NoOp EXCEPT !.name = "exec", !.url = u, !.fallbackFn = fallbackFn]
    /\ UNCHANGED << routes, catchAll, subscribers >>
    /\ UNCHANGED routeVars

\* #publishCurrent, then the callback of the branch b
ExecRun(u, fallbackFn, b) ==
    /\ current' = b.current
    /\ calls' = PublishCalls(subscribers, b.current)
                   \o (IF b.callback = NoCallback THEN << >>
                       ELSE << CallbackCall(b.callback, b.params, b.route) >>)
    /\ returned' = IF b.callback = NoCallback THEN "false" ELSE CallbackReturn(b.callback)
    /\ op' = [NoOp EXCEPT !.name = "exec", !.url = u, !.fallbackFn = fallbackFn]
    /\ UNCHANGED << routes, catchAll, subscribers >>
    /\ UNCHANGED routeVars

\* exec(u, fallbackFn)
Exec(u, fallbackFn) == ExecRun(u, fallbackFn, ExecBranch(routes, catchAll, u, fallbackFn))

\* a faulty reset: the catch-all is removed with the routes
ResetClearsCatchAll ==
    /\ routes' = << >>
    /\ catchAll' = NoCallback
    /\ op' = [NoOp EXCEPT !.name = "reset"]
    /\ calls' = << >>
    /\ returned' = "this"
    /\ UNCHANGED << current, subscribers >>
    /\ UNCHANGED routeVars

\* reset()
Reset ==
    /\ routes' = << >>
    /\ op' = [NoOp EXCEPT !.name = "reset"]
    /\ calls' = << >>
    /\ returned' = "this"
    /\ UNCHANGED << catchAll, current, subscribers >>
    /\ UNCHANGED routeVars

\* a faulty subscribe: s is registered and not called
SubscribeSilent(s) ==
    /\ subscribers' = IF \E i \in 1..Len(subscribers) : subscribers[i] = s
                      THEN subscribers
                      ELSE Append(subscribers, s)
    /\ calls' = << >>
    /\ op' = [NoOp EXCEPT !.name = "subscribe", !.subscription = s]
    /\ returned' = "unsubscribe"
    /\ UNCHANGED << routes, catchAll, current >>
    /\ UNCHANGED routeVars

\* subscribe(s): registers s and calls it with the current state
Subscribe(s) ==
    /\ subscribers' = IF \E i \in 1..Len(subscribers) : subscribers[i] = s
                      THEN subscribers
                      ELSE Append(subscribers, s)
    /\ calls' = << SubscriberCall(s, current) >>
    /\ op' = [NoOp EXCEPT !.name = "subscribe", !.subscription = s]
    /\ returned' = "unsubscribe"
    /\ UNCHANGED << routes, catchAll, current >>
    /\ UNCHANGED routeVars

\* the unsubscribe function subscribe(s) returned
Unsubscribe(s) ==
    /\ \E i \in 1..Len(subscribers) : subscribers[i] = s
    /\ subscribers' = SelectSeq(subscribers, LAMBDA x : x # s)
    /\ calls' = << >>
    /\ op' = [NoOp EXCEPT !.name = "unsubscribe", !.subscription = s]
    /\ returned' = "undefined"
    /\ UNCHANGED << routes, catchAll, current >>
    /\ UNCHANGED routeVars

Next ==
    \/ \E rs \in OnRouteLists, cb \in Callbacks, options \in OnOptions : On(rs, cb, options)
    \/ \E u \in RouterUrls, fallbackFn \in Callbacks \cup { NoCallback } : Exec(u, fallbackFn)
    \/ Reset
    \/ \E s \in Subscribers : Subscribe(s)
    \/ \E s \in Subscribers : Unsubscribe(s)

Spec == Init /\ [][Next]_vars

\* the constructor has run and has not thrown
Constructed == op.name # "none" /\ ~(op.name = "constructor" /\ returned = "threw")

\* a router constructed from a config object, then exec and subscribe calls
NextConfig ==
    \/ \E config \in ConfigObjects : Constructor(config)
    \/ \E u \in ConfigUrls, fallbackFn \in ConfigCallbacks \cup { NoCallback } :
          Constructed /\ Exec(u, fallbackFn)
    \/ \E s \in Subscribers : Constructed /\ Subscribe(s)

SpecConfig == Init /\ [][NextConfig]_vars

(***************************************************************************)
(* Properties of SimpleRoute, stated over the state of SpecRoute: the      *)
(* pattern route with its compiled #parsed, and the last call              *)
(* parse(url, allowQueryParams) with its local variables rawSegments and   *)
(* segments and its returned value result.                                 *)
(***************************************************************************)
\* the key and the value a capture writes for pattern segment cfg and
\* candidate text s: both percent-decoded, both as written when one of them
\* does not decode
CaptureKey(cfg, s) ==
    IF decodeURIComponent(cfg.name).ok /\ decodeURIComponent(s).ok
    THEN decodeURIComponent(cfg.name).val
    ELSE cfg.name

CaptureVal(cfg, s) ==
    IF decodeURIComponent(cfg.name).ok /\ decodeURIComponent(s).ok
    THEN decodeURIComponent(s).val
    ELSE s

\* the mapping that holds the query entries seed, overridden by the captures
\* of the named pattern segments among the first c, each bound to the
\* candidate entry at its position (the later of two equal names wins)
Bindings(seed, cfgs, segs, c) ==
    LET named == { i \in 1..c : cfgs[i].name # NoName }
        keys == DOMAIN seed \cup { CaptureKey(cfgs[i], segs[i]) : i \in named }
    IN [ k \in keys |->
           IF \E i \in named : CaptureKey(cfgs[i], segs[i]) = k
           THEN LET j == CHOOSE i \in named :
                            /\ CaptureKey(cfgs[i], segs[i]) = k
                            /\ \A h \in named :
                                  CaptureKey(cfgs[h], segs[h]) = k => h <= i
                IN CaptureVal(cfgs[j], segs[j])
           ELSE seed[k] ]

\* the query entries of the last parse call
QuerySeed == SplitUrl(url, allowQueryParams).matched

IsWildcard(cfg) == cfg.segment = << WILDCARD >>

HasSpread(cfgs) == \E i \in 1..Len(cfgs) : cfgs[i].isSpread

HasWildcard(cfgs) == \E i \in 1..Len(cfgs) : IsWildcard(cfgs[i])

\* candidate entry i passes the test of pattern segment i, for every i in 1..c
TestsPass(cfgs, segs, c) == \A i \in 1..c : RegExpTest(cfgs[i].test, segs[i])

\* the position of the spread segment of cfgs
SpreadIndex(cfgs) == CHOOSE i \in 1..Len(cfgs) : cfgs[i].isSpread

\* a spread segment followed by at least one further pattern segment
SpreadThenMore(cfgs) == HasSpread(cfgs) /\ SpreadIndex(cfgs) < Len(cfgs)

\* the reflow that reserves the last k raw segments for the k pattern segments
\* after the spread at position i
ReservingReflow(raw, i, k) ==
    SubSeq(raw, 1, i - 1)
       \o << Join(SubSeq(raw, i, Len(raw) - k), SPLITTER) >>
       \o SubSeq(raw, Len(raw) - k + 1, Len(raw))

\* C1: when the spread segment is followed by k >= 1 further pattern
\* segments, the spread entry of a candidate is the join of the raw segments
\* from the spread's position up to but excluding the last k, and the last k
\* raw segments align with the k pattern segments after the spread; in
\* particular a pattern of a spread and one named segment matches every
\* candidate of n >= 2 segments, with the spread bound to the first n-1
\* segments joined and the named segment to the last one.  (Stated for the
\* candidates that have a raw segment for every pattern segment, and for
\* patterns without a wildcard, which needs no segment of its own.)
C1_SpreadReservesTrailing ==
    (phase = "parsed" /\ SpreadThenMore(parsed) /\ ~HasWildcard(parsed)
        /\ Len(rawSegments) >= Len(parsed))
    => LET i == SpreadIndex(parsed)
           k == Len(parsed) - i
           n == Len(rawSegments)
       IN /\ segments = ReservingReflow(rawSegments, i, k)
          /\ (Len(parsed) = 2 /\ i = 1 /\ parsed[2].name # NoName
                 /\ ~parsed[2].isOptional /\ parsed[2].test = << ".", "+" >>)
             => /\ ~result.isNull
                /\ result.params =
                      Bindings(QuerySeed, parsed,
                               << Join(SubSeq(rawSegments, 1, n - 1), SPLITTER),
                                  rawSegments[n] >>, 2)

\* m mandatory segments followed by optional ones, no spread and no wildcard
MandatoryThenOptional(cfgs) ==
    /\ ~HasSpread(cfgs)
    /\ ~HasWildcard(cfgs)
    /\ \A i, j \in 1..Len(cfgs) : (i < j /\ cfgs[i].isOptional) => cfgs[j].isOptional

MandatoryCount(cfgs) == Cardinality({ i \in 1..Len(cfgs) : ~cfgs[i].isOptional })

\* C2: for a pattern of m mandatory segments followed by n optional ones,
\* without spread or wildcard, a candidate of c segments matches iff
\* m <= c <= m+n and each of its segments passes the test of the pattern
\* segment at its position; the result holds the query entries and exactly
\* the captures of the named segments among the first c, so an omitted
\* optional segment contributes no entry.
C2_TrailingOptionals ==
    (phase = "parsed" /\ MandatoryThenOptional(parsed))
    => LET c == Len(rawSegments)
           m == MandatoryCount(parsed)
       IN /\ ~result.isNull
                <=> (m <= c /\ c <= Len(parsed) /\ TestsPass(parsed, rawSegments, c))
          /\ ~result.isNull
                => result.params = Bindings(QuerySeed, parsed, rawSegments, c)

\* a matched candidate that omits an optional segment of such a pattern
C2_Witness ==
    /\ phase = "parsed"
    /\ MandatoryThenOptional(parsed)
    /\ MandatoryCount(parsed) >= 1
    /\ Len(rawSegments) < Len(parsed)
    /\ ~result.isNull
    /\ \E i \in 1..Len(rawSegments) : parsed[i].name # NoName

\* p >= 1 mandatory non-spread segments followed by the wildcard
PrefixThenWildcard(cfgs) ==
    /\ Len(cfgs) >= 2
    /\ IsWildcard(cfgs[Len(cfgs)])
    /\ \A i \in 1..(Len(cfgs) - 1) :
          ~cfgs[i].isOptional /\ ~cfgs[i].isSpread /\ ~IsWildcard(cfgs[i])

\* C3: for a pattern P/* with P of p >= 1 mandatory non-spread segments, a
\* candidate matches iff it has at least p segments and its first p segments
\* pass P's tests; a candidate of exactly p segments matches, further
\* candidate segments are ignored, and the wildcard contributes no capture.
C3_WildcardAbsorbs ==
    (phase = "parsed" /\ PrefixThenWildcard(parsed))
    => LET p == Len(parsed) - 1
       IN /\ ~result.isNull
                <=> (Len(rawSegments) >= p /\ TestsPass(parsed, rawSegments, p))
          /\ ~result.isNull
                => result.params = Bindings(QuerySeed, parsed, rawSegments, p)

\* a matched candidate of exactly p segments: the wildcard takes none
C3_Witness ==
    /\ phase = "parsed"
    /\ PrefixThenWildcard(parsed)
    /\ Len(rawSegments) = Len(parsed) - 1
    /\ ~result.isNull
    /\ \E i \in 1..(Len(parsed) - 1) : parsed[i].name # NoName

\* the segments of the pattern text, as written
PatternSegments == sanitizeAndSplit(route)

\* a pattern segment written as a spread, and one written as the wildcard
\* (the optional marker, when present, ends the segment)
WrittenSpread(s) == StartsWith(s, << "[", ".", ".", "." >>)

WrittenWildcard(s) == s = << WILDCARD >> \/ s = << WILDCARD, "?" >>

\* C4: the constructor throws, and no compiled pattern exists, whenever the
\* pattern has more than one spread segment, a spread segment marked
\* optional, or a wildcard that is not the last segment; so a compiled
\* pattern has at most one spread segment, no segment that is both spread
\* and optional, and a wildcard only in last position.
C4_CompileErrors ==
    LET w == PatternSegments
        spreads == { i \in 1..Len(w) : WrittenSpread(w[i]) }
        invalid == \/ Cardinality(spreads) > 1
                   \/ \E i \in spreads : EndsWith(w[i], << "?" >>)
                   \/ \E i \in 1..(Len(w) - 1) : WrittenWildcard(w[i])
    IN /\ (phase # "new" /\ invalid)
          => (phase = "threw" /\ error # NoError /\ parsed = << >>)
       /\ phase \in { "compiled", "parsed" }
          => /\ Cardinality({ i \in 1..Len(parsed) : parsed[i].isSpread }) <= 1
             /\ \A i \in 1..Len(parsed) : ~(parsed[i].isSpread /\ parsed[i].isOptional)
             /\ \A i \in 1..Len(parsed) : IsWildcard(parsed[i]) => i = Len(parsed)
             /\ Len(parsed) = Len(w)

\* the constructor threw on a pattern with two spread segments
C4_Witness ==
    /\ phase = "threw"
    /\ Cardinality({ i \in 1..Len(PatternSegments) : WrittenSpread(PatternSegments[i]) }) = 2
    /\ \A i \in 1..Len(PatternSegments) : ~EndsWith(PatternSegments[i], << "?" >>)
    /\ \A i \in 1..Len(PatternSegments) : ~WrittenWildcard(PatternSegments[i])

\* the number of candidate entries the segment loop visits on a match
Visited == Min(Len(segments), Len(parsed))

\* C7 as stated: with query parsing enabled, a capture name of the pattern
\* that is also a key of the query string is mapped by a successful match to
\* the path-segment value, never to the query value; every other query key
\* keeps its query value.
C7_PathAlwaysWins ==
    (phase = "parsed" /\ allowQueryParams /\ ~result.isNull)
    => /\ \A i \in 1..Len(parsed) :
             (parsed[i].name # NoName /\ parsed[i].name \in DOMAIN QuerySeed)
             => \E j \in 1..Visited :
                   /\ parsed[j].name = parsed[i].name
                   /\ result.params[parsed[i].name] = CaptureVal(parsed[j], segments[j])
       /\ \A k \in DOMAIN QuerySeed :
             (\A i \in 1..Len(parsed) : parsed[i].name # k)
             => (k \in DOMAIN result.params /\ result.params[k] = QuerySeed[k])

\* C7: with query parsing enabled, the result of a successful match maps the
\* capture name of every pattern segment aligned with a candidate entry to
\* that entry's value, also when the name is a key of the query string; every
\* other query key keeps its query value, the name of an omitted optional
\* segment included.
C7_PathWinsWhereCaptured ==
    (phase = "parsed" /\ allowQueryParams /\ ~result.isNull)
    => result.params = Bindings(QuerySeed, parsed, segments, Visited)

\* a match whose capture name is also a query key
C7_Witness ==
    /\ phase = "parsed"
    /\ allowQueryParams
    /\ ~result.isNull
    /\ \E i \in 1..Visited :
          /\ parsed[i].name # NoName
          /\ parsed[i].name \in DOMAIN QuerySeed
          /\ result.params[parsed[i].name] = CaptureVal(parsed[i], segments[i])
          /\ result.params[parsed[i].name] # QuerySeed[parsed[i].name]

\* the characters of s that are not the separator
WithoutSplitters(s) == SelectSeq(s, LAMBDA ch : ch # SPLITTER)

RECURSIVE Concat(_)
Concat(parts) == IF Len(parts) = 0 THEN << >> ELSE parts[1] \o Concat(Tail(parts))

\* the capture names of the pattern, as written and percent-decoded
CaptureNames(cfgs) ==
    LET named == { i \in 1..Len(cfgs) : cfgs[i].name # NoName }
    IN { cfgs[i].name : i \in named }
          \cup { decodeURIComponent(cfgs[i].name).val :
                    i \in { j \in named : decodeURIComponent(cfgs[j].name).ok } }

\* C8: with allowQueryParams = false the candidate is not split at "?": the
\* whole candidate is the path, "?" and what follows it stay in the segment
\* text they occur in, and the result of a successful match has only capture
\* names of the pattern as keys.
C8_NoQuerySplit ==
    (phase = "parsed" /\ ~allowQueryParams)
    => /\ rawSegments = sanitizeAndSplit(url)
       /\ Concat(rawSegments) = WithoutSplitters(url)
       /\ ~result.isNull
             => DOMAIN result.params \subseteq CaptureNames(parsed)

\* a capture that holds the "?" of the candidate and the text after it
C8_Witness ==
    /\ phase = "parsed"
    /\ ~allowQueryParams
    /\ ~result.isNull
    /\ \E k \in DOMAIN result.params :
          \E i \in 1..Len(result.params[k]) :
             /\ result.params[k][i] = "?"
             /\ i < Len(result.params[k])

\* no spread, no wildcard, one optional segment, a mandatory one right after it
OptionalBeforeMandatory(cfgs) ==
    /\ ~HasSpread(cfgs)
    /\ ~HasWildcard(cfgs)
    /\ Cardinality({ i \in 1..Len(cfgs) : cfgs[i].isOptional }) = 1
    /\ ~cfgs[Len(cfgs)].isOptional

\* the pattern text with the optional marker of every segment removed
RECURSIVE UnmarkAll(_)
UnmarkAll(w) ==
    IF Len(w) = 0 THEN << >>
    ELSE << IF EndsWith(w[1], << "?" >>) THEN SubSeq(w[1], 1, Len(w[1]) - 1) ELSE w[1] >>
            \o UnmarkAll(Tail(w))

Unmarked == << SPLITTER >> \o Join(UnmarkAll(PatternSegments), SPLITTER)

\* C9: for a pattern without spread or wildcard whose only optional segment
\* is directly followed by a mandatory segment, parse returns for every
\* candidate what the pattern without the optional marker returns, so only a
\* candidate that supplies every segment matches.
C9_OptionalBeforeMandatory ==
    (phase = "parsed" /\ OptionalBeforeMandatory(parsed))
    => /\ result = Parse(CompileRoute(Unmarked).parsed, url, allowQueryParams)
       /\ ~result.isNull => Len(rawSegments) = Len(parsed)

\* a candidate that omits the optional segment and is refused, though each of
\* its segments passes the test at its position
C9_Witness ==
    /\ phase = "parsed"
    /\ OptionalBeforeMandatory(parsed)
    /\ Len(rawSegments) = Len(parsed) - 1
    /\ TestsPass(parsed, rawSegments, Len(rawSegments))
    /\ result.isNull

\* p mandatory non-spread segments followed by the spread segment
PrefixThenSpread(cfgs) ==
    /\ Len(cfgs) >= 1
    /\ cfgs[Len(cfgs)].isSpread
    /\ \A i \in 1..(Len(cfgs) - 1) :
          ~cfgs[i].isOptional /\ ~cfgs[i].isSpread /\ ~IsWildcard(cfgs[i])

\* C10: when the spread segment is the last pattern segment, after p
\* mandatory non-spread segments, every candidate of n > p segments whose
\* first p segments pass the preceding tests matches (the spread's own test
\* permitting), and the spread capture is the join of the remaining n-p raw
\* segments; a candidate of exactly p segments is no match.
C10_SpreadLast ==
    (phase = "parsed" /\ PrefixThenSpread(parsed))
    => LET p == Len(parsed) - 1
           n == Len(rawSegments)
           rest == Join(SubSeq(rawSegments, p + 1, n), SPLITTER)
       IN /\ (n > p /\ TestsPass(parsed, rawSegments, p)
                    /\ RegExpTest(parsed[p + 1].test, rest))
             => /\ ~result.isNull
                /\ segments = SubSeq(rawSegments, 1, p) \o << rest >>
                /\ result.params =
                      Bindings(QuerySeed, parsed, SubSeq(rawSegments, 1, p) \o << rest >>,
                               p + 1)
          /\ n = p => result.isNull

\* a match in which the spread takes two or more raw segments
C10_Witness ==
    /\ phase = "parsed"
    /\ PrefixThenSpread(parsed)
    /\ Len(parsed) >= 2
    /\ Len(rawSegments) >= Len(parsed) + 1
    /\ ~result.isNull

(***************************************************************************)
(* Properties of SimpleRouter, stated over the state of Spec: #routes,     *)
(* #catchAll, and the last call op with the functions it invoked (calls)   *)
(* and the value it returned.                                              *)
(***************************************************************************)
\* what parse of the registered route e returns for the string u
EntryParse(e, u) == Parse(CompileRoute(e.route).parsed, u, e.allowQueryParams)

\* the positions of the registered routes that match u
MatchingRoutes(u) == { i \in 1..Len(routes) : ~EntryParse(routes[i], u).isNull }

\* the earliest of them
EarliestMatch(u) == CHOOSE i \in MatchingRoutes(u) : \A j \in MatchingRoutes(u) : i <= j

\* the callbacks the last call invoked, in order
CallbackCalls == SelectSeq(calls, LAMBDA c : c.kind = "callback")

\* C5: when some registered ordinary route matches url, exec(url) invokes
\* exactly one callback: that of the earliest-registered matching route (a
\* match with an empty mapping counts), with the mapping and the pattern of
\* that route; the callbacks of later matching routes, a second registration
\* of the same pattern included, are not invoked.
C5_FirstMatchWins ==
    (op.name = "exec" /\ MatchingRoutes(op.url) # {})
    => LET e == routes[EarliestMatch(op.url)]
       IN /\ Len(CallbackCalls) = 1
          /\ CallbackCalls[1].fn = e.cb
          /\ CallbackCalls[1].params = EntryParse(e, op.url)
          /\ CallbackCalls[1].route = e.route

\* an exec that two routes with different callbacks match, the earlier one
\* with an empty mapping
C5_Witness ==
    /\ op.name = "exec"
    /\ Cardinality(MatchingRoutes(op.url)) >= 2
    /\ \E i, j \in MatchingRoutes(op.url) : routes[i].cb # routes[j].cb
    /\ EntryParse(routes[EarliestMatch(op.url)], op.url) = Matched(EmptyParams)
    /\ Len(CallbackCalls) = 1

\* C6: exec(url, fallbackFn) returns what is returned by the callback of the
\* first matching registered route, else by fallbackFn when it is given,
\* else by the catch-all callback when one is registered, else false; the
\* callback that is invoked is that one and no other, and its return value
\* is returned as it is.
C6_ExecPriority ==
    op.name = "exec"
    => LET chosen == IF MatchingRoutes(op.url) # {}
                     THEN routes[EarliestMatch(op.url)].cb
                     ELSE IF op.fallbackFn # NoCallback THEN op.fallbackFn
                     ELSE catchAll
       IN IF chosen = NoCallback
          THEN returned = "false" /\ Len(CallbackCalls) = 0
          ELSE /\ returned = CallbackReturn(chosen)
               /\ Len(CallbackCalls) = 1
               /\ CallbackCalls[1].fn = chosen

\* an exec that no route matches, given a fallbackFn while another callback
\* is registered as catch-all
C6_Witness ==
    /\ op.name = "exec"
    /\ MatchingRoutes(op.url) = {}
    /\ Len(routes) > 0
    /\ op.fallbackFn # NoCallback
    /\ catchAll # NoCallback
    /\ catchAll # op.fallbackFn
    /\ returned = CallbackReturn(op.fallbackFn)
    /\ returned # CallbackReturn(catchAll)

\* a pattern whose first segment is the bare wildcard
LeadingWildcard(cfgs) == Len(cfgs) >= 1 /\ IsWildcard(cfgs[1])

\* C11 as stated: for a pattern whose first segment is the bare wildcard,
\* parse returns the empty mapping for every candidate.
C11_LeadingWildcardEmpty ==
    (phase = "parsed" /\ LeadingWildcard(parsed))
    => result = Matched(EmptyParams)

\* C11: for a pattern whose first segment is the bare wildcard, parse never
\* returns null and returns, for every candidate, the mapping of the
\* candidate's query entries: the empty mapping when the candidate has no
\* query string or query parsing is disabled.
C11_LeadingWildcardQuerySeed ==
    (phase = "parsed" /\ LeadingWildcard(parsed))
    => /\ result = Matched(QuerySeed)
       /\ (~allowQueryParams \/ IndexOf(url, "?") = 0) => result = Matched(EmptyParams)

\* a leading wildcard that returns the query entries of a candidate whose
\* path has segments
C11_Witness ==
    /\ phase = "parsed"
    /\ LeadingWildcard(parsed)
    /\ Len(rawSegments) >= 2
    /\ allowQueryParams
    /\ ~result.isNull
    /\ DOMAIN result.params # {}

\* the pattern text has literal segments only: none is written in brackets,
\* none is the wildcard
LiteralOnly ==
    \A i \in 1..Len(PatternSegments) :
       PatternSegments[i][1] # "[" /\ ~WrittenWildcard(PatternSegments[i])

\* C12 as stated: for a pattern of literal segments only, parse returns null
\* or the empty mapping for every candidate.
C12_LiteralNoKeys ==
    (phase = "parsed" /\ LiteralOnly)
    => (result.isNull \/ result.params = EmptyParams)

\* C12: for a pattern of literal segments only, parse returns null or the
\* mapping of the candidate's query entries, so a key of the result is
\* always a key of the query string, and the mapping is empty when the
\* candidate has no query string or query parsing is disabled.
C12_LiteralOnlyQueryKeys ==
    (phase = "parsed" /\ LiteralOnly)
    => \/ result.isNull
       \/ /\ result.params = QuerySeed
          /\ (~allowQueryParams \/ IndexOf(url, "?") = 0) => result.params = EmptyParams

\* a literal pattern of two segments that matches a candidate with a query string
C12_Witness ==
    /\ phase = "parsed"
    /\ LiteralOnly
    /\ Len(parsed) >= 2
    /\ ~result.isNull
    /\ DOMAIN result.params # {}

\* the candidate up to its first "?", and the text after that "?"
PathPart == SubSeq(url, 1, IndexOf(url, "?") - 1)

QueryPart == SubSeq(url, IndexOf(url, "?") + 1, Len(url))

\* the mapping a overridden by the mapping b
Override(a, b) ==
    [ k \in DOMAIN a \cup DOMAIN b |-> IF k \in DOMAIN b THEN b[k] ELSE a[k] ]

\* C14: with query parsing enabled, for a candidate u?q (u without "?"),
\* parse returns null iff parse of u returns null, and when it matches the
\* result is the parsed query mapping of q overridden by the captures that
\* parse of u returns.
C14_QueryNeverDecidesMatch ==
    (phase = "parsed" /\ allowQueryParams /\ IndexOf(url, "?") # 0)
    => LET plain == Parse(parsed, PathPart, TRUE)
       IN /\ result.isNull <=> plain.isNull
          /\ ~result.isNull
                => result.params = Override(parseQueryString(QueryPart), plain.params)

\* a match of a candidate with a query string in which both the path and the
\* query string contribute an entry
C14_Witness ==
    /\ phase = "parsed"
    /\ allowQueryParams
    /\ IndexOf(url, "?") # 0
    /\ ~result.isNull
    /\ DOMAIN Parse(parsed, PathPart, TRUE).params # {}
    /\ DOMAIN result.params # DOMAIN Parse(parsed, PathPart, TRUE).params

(***************************************************************************)
(* Properties stated over SpecSep: patterns and candidates written with    *)
(* leading, trailing and repeated separators.                              *)
(***************************************************************************)
\* the non-empty pieces of s between separators
Pieces(s) == SelectSeq(Split(s, SPLITTER), LAMBDA piece : Len(piece) > 0)

\* s written with single separators between its pieces and none around them
Canonical(s) == Join(Pieces(s), SPLITTER)

\* the path part of the last candidate, and its query suffix ("?" included)
UrlPath ==
    IF allowQueryParams /\ IndexOf(url, "?") # 0 THEN PathPart ELSE url

UrlSuffix ==
    IF allowQueryParams /\ IndexOf(url, "?") # 0
    THEN SubSeq(url, IndexOf(url, "?"), Len(url))
    ELSE << >>

\* C13: the result of parse is unchanged when leading, trailing or repeated
\* separators are added to the path part of the candidate or to the pattern
\* string: it is the result for the pattern and the path written with single
\* separators between their non-empty segments; so a pattern without
\* segments matches exactly the candidates whose path has no segment.
C13_SeparatorNormalization ==
    phase = "parsed"
    => /\ parsed = CompileRoute(Canonical(route)).parsed
       /\ result = Parse(CompileRoute(Canonical(route)).parsed,
                         Canonical(UrlPath) \o UrlSuffix, allowQueryParams)
       /\ Pieces(route) = << >> => (~result.isNull <=> Pieces(UrlPath) = << >>)

\* s has two separators in a row between two of its segments
RepeatedInside(s) ==
    \E i \in 2..(Len(s) - 2) :
       /\ s[i] = SPLITTER /\ s[i + 1] = SPLITTER
       /\ s[i - 1] # SPLITTER /\ s[i + 2] # SPLITTER

\* a match in which the pattern and the candidate both have repeated
\* separators inside and separators at both ends
C13_Witness ==
    /\ phase = "parsed"
    /\ ~result.isNull
    /\ RepeatedInside(route) /\ route[1] = SPLITTER /\ route[Len(route)] = SPLITTER
    /\ RepeatedInside(UrlPath) /\ url[1] = SPLITTER /\ UrlPath[Len(UrlPath)] = SPLITTER
    /\ DOMAIN result.params # {}

(***************************************************************************)
(* Properties stated over SpecDecode: patterns and candidates with         *)
(* malformed percent-encodings.                                            *)
(***************************************************************************)
\* s has a "%" that is not followed by two hexadecimal digits
Malformed(s) ==
    \E i \in 1..Len(s) :
       /\ s[i] = "%"
       /\ (i + 2 > Len(s) \/ ~IsHex(s[i + 1]) \/ ~IsHex(s[i + 2]))

\* the entry a query pair << key, value >> stands for: both decoded, or both
\* raw when either has a malformed encoding
PairKey(pair) ==
    IF Malformed(pair[1]) \/ Malformed(pair[2])
    THEN pair[1] ELSE decodeURIComponent(pair[1]).val

PairVal(pair) ==
    IF Malformed(pair[1]) \/ Malformed(pair[2])
    THEN pair[2] ELSE decodeURIComponent(pair[2]).val

\* the mapping a list of query pairs stands for (the last pair of a key wins)
PairsMapping(pairs) ==
    [ k \in { PairKey(pairs[i]) : i \in 1..Len(pairs) } |->
        LET j == CHOOSE i \in 1..Len(pairs) :
                    /\ PairKey(pairs[i]) = k
                    /\ \A h \in 1..Len(pairs) : PairKey(pairs[h]) = k => h <= i
        IN PairVal(pairs[j]) ]

\* the entry a named pattern segment and its candidate entry stand for
FallbackKey(cfg, s) ==
    IF Malformed(cfg.name) \/ Malformed(s)
    THEN cfg.name ELSE decodeURIComponent(cfg.name).val

FallbackVal(cfg, s) ==
    IF Malformed(cfg.name) \/ Malformed(s) THEN s ELSE decodeURIComponent(s).val

\* the query pairs << key, value >> written in the last candidate
UrlPairs ==
    IF IndexOf(url, "?") = 0 THEN << >>
    ELSE LET texts == Split(QueryPart, "&")
         IN [ i \in 1..Len(texts) |-> Split(texts[i], "=") ]

\* C15: parse of a compiled pattern completes for every candidate and flag and
\* returns null or a mapping; a malformed percent-encoding in a captured
\* segment, capture name, query key or query value never turns a match into
\* null and makes that name/value pair appear with its raw text.
C15_MalformedEncodingFallsBack ==
    phase = "parsed"
    => /\ result = Null \/ result = Matched(result.params)
       /\ allowQueryParams => QuerySeed = PairsMapping(UrlPairs)
       /\ (/\ Len(parsed) = 1 /\ parsed[1].name # NoName
           /\ Len(Pieces(UrlPath)) = 1) => ~result.isNull
       /\ ~result.isNull
             => /\ \A i \in 1..Visited :
                      parsed[i].name # NoName
                      => FallbackKey(parsed[i], segments[i]) \in DOMAIN result.params
                /\ \A i \in 1..Visited :
                      (/\ parsed[i].name # NoName
                       /\ \A h \in (i + 1)..Visited :
                             parsed[h].name # NoName
                             => FallbackKey(parsed[h], segments[h])
                                   # FallbackKey(parsed[i], segments[i]))
                      => result.params[FallbackKey(parsed[i], segments[i])]
                            = FallbackVal(parsed[i], segments[i])
                /\ \A k \in DOMAIN result.params :
                      \/ \E i \in 1..Visited :
                            /\ parsed[i].name # NoName
                            /\ FallbackKey(parsed[i], segments[i]) = k
                      \/ /\ k \in DOMAIN QuerySeed
                         /\ result.params[k] = QuerySeed[k]

\* a match with a malformed captured segment, a malformed capture name and a
\* malformed query value, all three kept as raw text
C15_Witness ==
    /\ phase = "parsed"
    /\ allowQueryParams
    /\ ~result.isNull
    /\ Len(parsed) = 2 /\ Len(segments) = 2
    /\ ~Malformed(parsed[1].name) /\ Malformed(segments[1])
    /\ result.params[parsed[1].name] = segments[1]
    /\ Malformed(parsed[2].name) /\ ~Malformed(segments[2])
    /\ result.params[parsed[2].name] = segments[2]
    /\ \E k \in DOMAIN QuerySeed : Malformed(QuerySeed[k]) /\ result.params[k] = QuerySeed[k]

CurrentAfterExec(u, fallbackFn) ==
    IF MatchingRoutes(u) # {}
    THEN LET e == routes[EarliestMatch(u)]
         IN [route |-> RouteStr(e.route), params |-> EntryParse(e, u), label |-> e.label]
    ELSE IF fallbackFn = NoCallback /\ catchAll # NoCallback
    THEN [route |-> RouteStr(<< "*" >>), params |-> Null, label |-> NoLabel]
    ELSE [route |-> NullRoute, params |-> Null, label |-> NoLabel]

\* the last call was exec, or no exec has been called yet
C17_AfterExec == op.name = "exec" => current = CurrentAfterExec(op.url, op.fallbackFn)

\* C17: router.current is {route: null, params: null, label: null} before any
\* exec; after an exec that matched a registered route it holds that route's
\* pattern string, the match mapping and the label given at registration (or
\* null); after an exec resolved by the catch-all it is {route: "*", params:
\* null, label: null}; after an exec resolved by fallbackFn or by nothing it
\* is all null; and no other call changes it.
C17_CurrentDescribesLastExec ==
    /\ current = InitialCurrent
    /\ [][ op'.name # "exec" => current' = current ]_vars
    /\ [] C17_AfterExec

\* an exec matched a labelled route with a non-empty mapping, after which
\* another call was made
C17_Witness ==
    /\ op.name \in { "on", "reset", "subscribe", "unsubscribe" }
    /\ ~current.route.isNull
    /\ current.label = "L"
    /\ ~current.params.isNull
    /\ DOMAIN current.params.params # {}

\* the subscriber calls the last call made to the function s, in order
CallsTo(s) == SelectSeq(calls, LAMBDA c : c.kind = "subscriber" /\ c.fn = s)

\* C18: subscribe(fn) calls fn exactly once before it returns, with the
\* router's current state at that moment (all null when no exec has happened
\* yet), and calls no other function.
C18_ImmediateDelivery ==
    op.name = "subscribe"
    => /\ calls = << SubscriberCall(op.subscription, current) >>
       /\ returned = "unsubscribe"

\* a subscribe made after an exec that matched a route, while another
\* function was already subscribed
C18_Witness ==
    /\ op.name = "subscribe"
    /\ ~current.route.isNull
    /\ Len(subscribers) = 2
    /\ subscribers[2] = op.subscription
    /\ Len(CallsTo(op.subscription)) = 1

\* the function s is subscribed (subscribe(s) was called and the unsubscribe
\* it returned was not)
Subscribed(s) == \E i \in 1..Len(subscribers) : subscribers[i] = s

\* a function becomes subscribed by its subscribe and stays so until its
\* unsubscribe, whatever else is called
C19_BetweenSubscribeAndUnsubscribe ==
    \A s \in Subscribers :
       Subscribed(s)' <=> IF op'.subscription = s THEN op'.name = "subscribe"
                          ELSE Subscribed(s)

\* every exec calls each subscribed function once with the new current state
\* and calls no other subscriber
C19_ExecNotifies ==
    op.name = "exec"
    => \A s \in Subscribers :
          CallsTo(s) = IF Subscribed(s) THEN << SubscriberCall(s, current) >> ELSE << >>

\* C19: between its subscribe and its unsubscribe a subscriber is called
\* exactly once by every exec with the new current state, whatever the
\* outcome of the exec and also when the state equals the previous one;
\* after its unsubscribe it is not called, while the other subscribers are.
C19_NotificationPerExec ==
    /\ [][C19_BetweenSubscribeAndUnsubscribe]_vars
    /\ [] C19_ExecNotifies

\* an exec resolved by nothing, with one function subscribed and the other
\* not: the subscribed one is called with the all-null state
C19_Witness ==
    /\ op.name = "exec"
    /\ subscribers = << "s2" >>
    /\ current = InitialCurrent
    /\ returned = "false"
    /\ calls = << SubscriberCall("s2", InitialCurrent) >>

\* a reset step removes every ordinary route and changes nothing else, and
\* calls no function
C20_ResetStep ==
    op'.name = "reset"
    => /\ routes' = << >>
       /\ catchAll' = catchAll
       /\ current' = current
       /\ subscribers' = subscribers
       /\ calls' = << >>

\* an exec without fallbackFn on a router without ordinary routes runs the
\* catch-all when one is registered and otherwise returns false with
\* current.route = null
C20_ExecAfterReset ==
    (op.name = "exec" /\ routes = << >> /\ op.fallbackFn = NoCallback)
    => IF catchAll # NoCallback
       THEN /\ CallbackCalls = << CallbackCall(catchAll, Null, << "*" >>) >>
            /\ returned = CallbackReturn(catchAll)
       ELSE /\ CallbackCalls = << >>
            /\ returned = "false"
            /\ current.route = NullRoute

\* C20: reset() removes every ordinary registered route and nothing else: the
\* catch-all callback stays registered, router.current keeps its value and
\* no subscriber is notified or removed; an exec without fallbackFn after it
\* runs the catch-all if one was registered and otherwise returns false with
\* current.route = null.
C20_ResetRemovesOnlyRoutes ==
    /\ [][C20_ResetStep]_vars
    /\ [](op.name = "reset" => routes = << >>)
    /\ [] C20_ExecAfterReset

\* a reset of a router that had a catch-all, a subscriber and a current state
\* published by an exec
C20_Witness ==
    /\ op.name = "reset"
    /\ routes = << >>
    /\ catchAll # NoCallback
    /\ subscribers # << >>
    /\ ~current.route.isNull
    /\ current.route.str # << "*" >>

(***************************************************************************)
(* Further properties of the router's dispatch.                            *)
(***************************************************************************)
\* the last call invoked the catch-all callback
CatchAllRan ==
    \E i \in 1..Len(CallbackCalls) :
       CallbackCalls[i].route = << "*" >> /\ CallbackCalls[i].params = Null

PairOfText(t) ==
    IF IndexOf(t, "=") = 0 THEN << t, << >> >>
    ELSE << SubSeq(t, 1, IndexOf(t, "=") - 1), SubSeq(t, IndexOf(t, "=") + 1, Len(t)) >>

\* the pairs of the query string of the last candidate, those with an empty
\* key left out
KeyedPairs ==
    LET texts == Split(QueryPart, "&")
        all == [ i \in 1..Len(texts) |-> PairOfText(texts[i]) ]
    IN SelectSeq(all, LAMBDA pair : Len(pair[1]) > 0)

\* C22: the mapping parseQueryString returns has exactly the non-empty keys of
\* the "&"-separated pairs; a pair without "=" maps its key to the empty
\* string; a pair with an empty key is dropped; and when a key occurs in
\* several pairs the value of the last such pair is the one in the result.
C22_QuerySplitter ==
    (phase = "parsed" /\ allowQueryParams /\ IndexOf(url, "?") # 0 /\ ~result.isNull)
    => /\ DOMAIN result.params = { PairKey(KeyedPairs[i]) : i \in 1..Len(KeyedPairs) }
       /\ \A i \in 1..Len(KeyedPairs) :
             (\A h \in (i + 1)..Len(KeyedPairs) :
                 PairKey(KeyedPairs[h]) # PairKey(KeyedPairs[i]))
             => result.params[PairKey(KeyedPairs[i])] = PairVal(KeyedPairs[i])

\* a query string with a pair of empty key, then an encoded and a plain
\* pair of the same key: the key is mapped to the value of the later pair
C22_Witness ==
    /\ phase = "parsed"
    /\ allowQueryParams
    /\ url = << "/", "a", "?", "=", "v", "&", "%", "6", "b", "=", "x", "&", "k" >>
    /\ result = Matched(<< "k" >> :> << >>)

(***************************************************************************)
(* Properties stated over SpecConstraint: patterns with constrained        *)
(* captures.                                                               *)
(***************************************************************************)
\* the pattern segment cfg is written [name(regex)]
HasConstraint(cfg) ==
    /\ cfg.name # NoName
    /\ IndexOf(cfg.segment, "(") # 0
    /\ EndsWith(cfg.segment, << ")", "]" >>)

\* the regex text of a pattern segment written [name(regex)]
ConstraintOf(cfg) ==
    SubSeq(cfg.segment, IndexOf(cfg.segment, "(") + 1, Len(cfg.segment) - 2)

\* the entire text s matches the sub-pattern sub: one of its alternatives
\* matches s from its first to its last character
MatchesEntirely(sub, s) ==
    LET alts == Alternatives(sub, 1, << >>)
    IN \E a \in 1..Len(alts) : MatchHere(alts[a] \o << "$" >>, 1, s, 1)

\* C23: a constrained named segment [name(regex)] accepts a candidate segment
\* only if the entire segment text matches the sub-pattern, also for a
\* sub-pattern with top-level alternation: a segment that merely starts or
\* ends with an accepted word is rejected.
C23_ConstraintAnchored ==
    (phase = "parsed" /\ ~result.isNull)
    => \A i \in 1..Visited :
          HasConstraint(parsed[i])
          => MatchesEntirely(ConstraintOf(parsed[i]), segments[i])

(***************************************************************************)
(* Properties of the minimum-length rule and of the segment loop, stated   *)
(* over SpecRoute.                                                         *)
(***************************************************************************)
\* pattern segment i counts toward the minimum: it is not optional, or the
\* segment after it exists and is not optional
Counts(cfgs, i) ==
    \/ ~cfgs[i].isOptional
    \/ (i + 1 <= Len(cfgs) /\ ~cfgs[i + 1].isOptional)

\* the number of segments of cfgs from position i on that count
RECURSIVE CountFrom(_, _)
CountFrom(cfgs, i) ==
    IF i > Len(cfgs) THEN 0
    ELSE (IF Counts(cfgs, i) THEN 1 ELSE 0) + CountFrom(cfgs, i + 1)

MinSegments(cfgs) == CountFrom(cfgs, 1)

\* C24: the minimum number of reflowed candidate segments a pattern requires
\* is the number of pattern segments i that are not optional or are followed
\* by a segment that is not optional: unless the pattern starts with the
\* wildcard, a candidate with fewer segments is NoMatch, and a candidate with
\* at least that many segments, none beyond the pattern's, matches when each
\* of its segments passes the test at its position.
C24_MinimumLength ==
    (phase = "parsed" /\ ~LeadingWildcard(parsed))
    => /\ Len(segments) < MinSegments(parsed) => result.isNull
       /\ (/\ Len(segments) >= MinSegments(parsed)
           /\ Len(segments) <= Len(parsed)
           /\ TestsPass(parsed, segments, Len(segments)))
          => ~result.isNull

\* a candidate one segment short of the minimum is refused, though each of
\* its segments passes the test at its position and some pattern segment is
\* optional
C24_Witness ==
    /\ phase = "parsed"
    /\ ~LeadingWildcard(parsed)
    /\ \E i \in 1..Len(parsed) : parsed[i].isOptional /\ Counts(parsed, i)
    /\ \E i \in 1..Len(parsed) : parsed[i].isOptional /\ ~Counts(parsed, i)
    /\ Len(segments) = MinSegments(parsed) - 1
    /\ TestsPass(parsed, segments, Len(segments))
    /\ result.isNull

\* C25: in a run of consecutive optional segments that is immediately
\* followed by a mandatory segment every optional segment counts toward the
\* minimum length, so a candidate that matches has at least as many segments
\* as the position of that mandatory segment.
C25_OptionalRunCounts ==
    (phase = "parsed" /\ ~LeadingWildcard(parsed) /\ ~result.isNull)
    => \A j \in 2..Len(parsed) :
          (parsed[j - 1].isOptional /\ ~parsed[j].isOptional)
          => Len(segments) >= j

\* C27: whenever parse succeeds for a pattern that does not start with the
\* wildcard, every non-optional pattern segment has a candidate segment at
\* its position that passes its test, also for patterns with two or more
\* consecutive optional segments before a mandatory one.
C27_MandatoryNeverSkipped ==
    (phase = "parsed" /\ ~LeadingWildcard(parsed) /\ ~result.isNull)
    => \A j \in 1..Len(parsed) :
          ~parsed[j].isOptional
          => (j <= Len(segments) /\ RegExpTest(parsed[j].test, segments[j]))

\* C28: whenever parse succeeds for a pattern without a wildcard, every raw
\* candidate segment was tested against its own pattern segment or is part
\* of the spread capture: the reflowed segments hold all the raw segments, in
\* order, and none of them lies beyond the last pattern segment.
C28_NoSegmentDiscarded ==
    (phase = "parsed" /\ ~HasWildcard(parsed) /\ ~result.isNull)
    => /\ Join(segments, SPLITTER) = Join(rawSegments, SPLITTER)
       /\ Len(segments) <= Len(parsed)

\* C29: registration is all-or-nothing: when on() is given an array of
\* patterns and compiling one of them fails, on() raises the error and the
\* route list and the catch-all are what they were before the call.
C29_RegistrationAllOrNothing ==
    [][ (op'.name = "on" /\ returned' = "threw")
        => (routes' = routes /\ catchAll' = catchAll) ]_vars

(***************************************************************************)
(* Properties stated over SpecConfig: a router constructed from a config   *)
(* object.                                                                 *)
(***************************************************************************)
\* the config object maps patterns to callbacks: every value is a function
PlainConfig(config) == \A i \in 1..Len(config) : config[i].value.kind = "function"

\* the entries of config whose key is not the catch-all pattern, in key order
OrdinaryEntries(config) == SelectSeq(config, LAMBDA e : e.key # << "*" >>)

\* C26: constructing a router from a plain config object that maps route
\* patterns to callbacks registers every key of the object: each key other
\* than "*" becomes an ordinary route, in key order, and "*" becomes the
\* catch-all, also when a key is a one-segment pattern such as routes or
\* logger.
C26_ConfigRegistersEveryKey ==
    (op.name = "constructor" /\ PlainConfig(op.config))
    => /\ Len(routes) = Len(OrdinaryEntries(op.config))
       /\ \A i \in 1..Len(routes) :
             /\ routes[i].route = OrdinaryEntries(op.config)[i].key
             /\ routes[i].cb = OrdinaryEntries(op.config)[i].value.fn
       /\ \A i \in 1..Len(op.config) :
             op.config[i].key = << "*" >> => catchAll = op.config[i].value.fn

\* C30: within one exec, router.current is updated and every subscriber has
\* been called with the new state before the selected callback (matched
\* route, fallbackFn or catch-all) is called, so the state is the one of this
\* exec also when the callback throws.
C30_PublishPrecedesDispatch ==
    op.name = "exec"
    => /\ current = CurrentAfterExec(op.url, op.fallbackFn)
       /\ \A i \in 1..Len(subscribers) : calls[i] = SubscriberCall(subscribers[i], current)
       /\ \A i \in 1..Len(calls) : calls[i].kind = "callback" => i = Len(subscribers) + 1
       /\ Len(calls) <= Len(subscribers) + 1

\* an exec whose matched route's callback threw, with two functions
\* subscribed: both were called before it and current names the route
C30_Witness ==
    /\ op.name = "exec"
    /\ returned = "threw"
    /\ Len(subscribers) = 2
    /\ ~current.route.isNull
    /\ current.route.str # << "*" >>
    /\ Len(calls) = 3
    /\ calls[3].kind = "callback"

====
